---- MODULE Spec2Model ----
(***************************************************************************)
(* State-machine model of the arena battle server.                         *)
(*                                                                         *)
(*   src/server.js         lines 1-574: the 12x12 arena (rooms, seats,     *)
(*                         cooldown-gated attack/heal/defend, modifiers,   *)
(*                         match timer).                                   *)
(*   src/unnamed/part_000  lines 1-525: the 4x4 grid variant.              *)
(*                                                                         *)
(* Every socket handler, the periodic tick and the deferred stink-clear    *)
(* callback is one action.  Math.random() and the wall clock are inputs:   *)
(* random draws are chosen with \E, and the clock (now) advances over a    *)
(* finite grid of instants.  Stats are integers (or missing / non-numeric) *)
(* so that every hp, shield and damage value is an integer.                *)
(*                                                                         *)
(* Of the event log and the socket.io broadcasts the model keeps what each  *)
(* handler run appends and sends (out), not their contents.  Not modelled: *)
(* player names, the spectator set, the display-only fields tick, stomp    *)
(* and windows.                                                            *)
(***************************************************************************)
EXTENDS Integers, FiniteSets, Sequences, TLC

VARIABLES
    variant,    \* which server runs: "arena" (src/server.js) or "grid4" (part_000)
    now,        \* Date.now(), read by every handler
    rooms,      \* server.js: the rooms Map, code -> room (NoRoom when absent)
    sock,       \* server.js: per socket id, connection status and socket.data
    timeouts,   \* server.js: pending setTimeout callbacks of applyMod (stink clear)
    cdDue,      \* history: per socket and action kind, t + base*mult of its last successful use
    out,        \* server.js: per room, the log entries and broadcasts of the last handler run
    log,        \* server.js: per room, room.log under a run of pushLog calls
    last,       \* history: the event handled by the step that produced this state
    rooms4,     \* part_000: the rooms object, code -> room (NoRoom when absent)
    sock4,      \* part_000: per socket id, connection status and socket.data.room
    intervals4  \* part_000: the live setInterval timers of startGame

avars == <<rooms, sock, timeouts, cdDue, out>>
gvars == <<rooms4, sock4, intervals4>>
vars ==
    <<variant, now, last, rooms, sock, timeouts, cdDue, out, log, rooms4, sock4, intervals4>>

-----------------------------------------------------------------------------
(* Program constants, src/server.js *)

W == 12
H == 12
MATCH_DURATION_MS == 240000
MOD_INTERVAL_MS == 60000
CD_ATTACK == 1200
CD_HEAL == 8000
CD_DEFEND == 8000
COOLDOWNS_BASE == [attack |-> CD_ATTACK, heal |-> CD_HEAL, defend |-> CD_DEFEND]
MAX_USES == 6
POWER_PENALTY == 5000
TELEPORT_JUMP == 3
LOG_CAP == 120
LOG_SHOWN == 30

(* Bounds of the model *)

MaxMinute == 4      \* the clock runs over minute marks 0 .. MaxMinute
MaxWalk == 1        \* moves are enumerated within MaxWalk cells of a spawn cell
MaxTries == 6       \* the use-counter runs take MaxTries + 1 instants
MaxPushes == 122    \* pushLog calls followed per room

-----------------------------------------------------------------------------
(* Values *)

NULL == "null"
Seats == {"A", "B"}
Corners == {"TL", "TR", "BL", "BR"}
Kinds == {"attack", "heal", "defend"}
Dirs == {"U", "D", "L", "R"}
Codes == {"R1", "R2"}
Ids == {"h", "a", "b"}

NoRoom == [code |-> NULL]
NoPlayer == [id |-> NULL]

OtherSeat(seat) == IF seat = "A" THEN "B" ELSE "A"

Max(a, b) == IF a >= b THEN a ELSE b
Min(a, b) == IF a <= b THEN a ELSE b
Abs(a) == IF a >= 0 THEN a ELSE -a

\* A raw client-supplied value: missing (undefined), non-numeric, or an integer.
Undef == [k |-> "undef", v |-> 0]
NaN == [k |-> "nan", v |-> 0]
Num(n) == [k |-> "num", v |-> n]

\* x ?? d
Coalesce(x, d) == IF x.k = "undef" THEN Num(d) ELSE x

\* Mutant: clamp without its lower bound.
clampUpperOnly(n, min, max) == IF n.k # "num" THEN min ELSE Min(max, n.v)

\* clamp(n, min, max): Number(n); NaN gives min.
clamp(n, min, max) == IF n.k # "num" THEN min ELSE Max(min, Min(max, n.v))

\* Math.round(n / 2) for an integer n (halves round towards +infinity).
RoundHalf(n) == (n + 1) \div 2

\* Math.round(base * mult) with mult given in tenths.
RoundTenths(n) == (n + 5) \div 10

cornerToSpawn(corner) ==
    IF corner = "TL" THEN [x |-> 1, y |-> 1]
    ELSE IF corner = "TR" THEN [x |-> W - 2, y |-> 1]
    ELSE IF corner = "BL" THEN [x |-> 1, y |-> H - 2]
    ELSE [x |-> W - 2, y |-> H - 2]

newPlayer(id, corner, stats) ==
    LET s == cornerToSpawn(corner) IN
    [ id |-> id, corner |-> corner, x |-> s.x, y |-> s.y,
      hpMax |-> clamp(Coalesce(stats.hpMax, 100), 10, 9999),
      hp |-> clamp(Coalesce(stats.hpMax, 100), 1, 9999),
      atk |-> clamp(Coalesce(stats.atk, 20), 1, 999),
      def |-> clamp(Coalesce(stats.def, 8), 0, 999),
      heal |-> clamp(Coalesce(stats.heal, 15), 0, 999),
      power |-> clamp(Coalesce(stats.power, 10000), 0, 999999999),
      healLeft |-> MAX_USES, defendLeft |-> MAX_USES,
      shield |-> 0, stink |-> FALSE,
      noDamageUntil |-> 0, halfDamageUntil |-> 0, skillSpeedMultUntil |-> 0,
      powerPenaltyUntil |-> 0, cooldownMultUntil |-> 0 ]

dist(a, b) == Abs(a.x - b.x) + Abs(a.y - b.y)

makeRoom(code, pass) ==
    [ code |-> code, pass |-> pass, hostId |-> NULL, started |-> FALSE,
      endsAt |-> 0, nextModAt |-> 0,
      sockets |-> [s \in Seats |-> NULL],
      players |-> [s \in Seats |-> NoPlayer],
      winner |-> NULL, loser |-> NULL ]

canMoveTo(x, y) == ~(x < 0 \/ y < 0 \/ x >= W \/ y >= H)

ZeroCooldowns == [k \in Kinds |-> 0]

\* socket.data as set by the connection handler
FreshData == [room |-> NULL, role |-> NULL, seat |-> NULL, cooldowns |-> ZeroCooldowns]

\* effectiveCooldownMult, in tenths
effectiveCooldownMult(p, t) ==
    IF p.cooldownMultUntil > t THEN 15
    ELSE IF p.skillSpeedMultUntil > t THEN 6
    ELSE 10

\* Mutant: the power penalty is ignored.
effectivePowerIgnoresPenalty(p, t) == p.power

effectivePower(p, t) ==
    IF p.powerPenaltyUntil > t THEN Max(0, p.power - POWER_PENALTY) ELSE p.power

-----------------------------------------------------------------------------
(* The event record of a step *)

Ev(op, c, code, arg, res) == [op |-> op, c |-> c, code |-> code, arg |-> arg, res |-> res]

\* A step of src/server.js: part_000's state is not touched. The handlers count
\* their pushLog calls in out; the content of room.log is followed by PushLog.
ArenaFrame == variant = "arena" /\ UNCHANGED <<variant, gvars, log>>

\* A step of part_000: src/server.js's state is not touched.
GridFrame == variant = "grid4" /\ UNCHANGED <<variant, avars, log>>

\* What a handler run sends to a room's members: the number of pushLog calls
\* (room.log.push and io.to(room).emit("log")) and whether it broadcast
\* (emitState, or applyMod's "throw").
NoOut == [code \in Codes |-> [logs |-> 0, emits |-> FALSE]]

Out(code, logs, emits) == [NoOut EXCEPT ![code] = [logs |-> logs, emits |-> emits]]

\* A handler that returns early: nothing but the event record changes.
Reject(op, c, code, arg, res) ==
    /\ last' = Ev(op, c, code, arg, res)
    /\ out' = NoOut
    /\ UNCHANGED <<now, rooms, sock, timeouts, cdDue>>

\* makeRoom's log: [], with the number of pushLog calls made on it so far.
NoLog == [entries |-> <<>>, pushed |-> 0]

\* Both servers right after start-up: no room, no connection, no timer.
InitState ==
    /\ now = 0
    /\ rooms = [code \in Codes |-> NoRoom]
    /\ sock = [c \in Ids |-> [conn |-> "new"] @@ FreshData]
    /\ timeouts = {}
    /\ cdDue = [c \in Ids |-> ZeroCooldowns]
    /\ out = NoOut
    /\ log = [code \in Codes |-> NoLog]
    /\ last = Ev("init", NULL, NULL, NULL, "ok")
    /\ rooms4 = [code \in Codes |-> NoRoom]
    /\ sock4 = [c \in Ids |-> [conn |-> "new", room |-> NULL]]
    /\ intervals4 = {}

Init == variant = "arena" /\ InitState

InitGrid == variant = "grid4" /\ InitState

InitEither == variant \in {"arena", "grid4"} /\ InitState

-----------------------------------------------------------------------------
(* src/server.js: connection, hostCreate, joinSeat, startMatch *)

\* io.on("connection")
Connect(c) ==
    /\ ArenaFrame
    /\ sock[c].conn = "new"
    /\ sock' = [sock EXCEPT ![c] = [conn |-> "open"] @@ FreshData]
    /\ last' = Ev("connection", c, NULL, NULL, "ok")
    /\ out' = NoOut
    /\ UNCHANGED <<now, rooms, timeouts, cdDue>>

\* socket.on("hostCreate")
HostCreate(c, code, pass) ==
    /\ ArenaFrame
    /\ sock[c].conn = "open"
    /\ IF rooms[code] # NoRoom /\ rooms[code].pass # pass
       THEN Reject("hostCreate", c, code, NULL, "Wrong password.")
       ELSE LET r == IF rooms[code] = NoRoom THEN makeRoom(code, pass) ELSE rooms[code] IN
            /\ rooms' = [rooms EXCEPT ![code] = [r EXCEPT !.hostId = c]]
            /\ sock' = [sock EXCEPT ![c].room = code, ![c].role = "host"]
            /\ last' = Ev("hostCreate", c, code, NULL, "ok")
            /\ out' = Out(code, 1, TRUE)
            /\ UNCHANGED <<now, timeouts, cdDue>>

\* Mutant: a held seat is never reported as taken.
SeatTakenNever(r, s, c) == FALSE

\* if (r.sockets[s] && r.sockets[s] !== socket.id)
SeatTaken(r, s, c) == r.sockets[s] # NULL /\ r.sockets[s] # c

\* socket.on("joinSeat")
JoinSeat(c, code, pass, seat, corner, stats) ==
    /\ ArenaFrame
    /\ sock[c].conn = "open"
    /\ LET r == rooms[code]
           s == IF seat = "B" THEN "B" ELSE "A"
           cn == IF corner \in Corners THEN corner ELSE (IF s = "A" THEN "TL" ELSE "BR")
       IN
       IF r = NoRoom THEN Reject("joinSeat", c, code, s, "Room not found.")
       ELSE IF r.pass # pass THEN Reject("joinSeat", c, code, s, "Wrong password.")
       ELSE IF SeatTaken(r, s, c)
            THEN Reject("joinSeat", c, code, s, "Seat is taken.")
       ELSE
         /\ rooms' = [rooms EXCEPT ![code] =
                        [r EXCEPT !.sockets[s] = c,
                                  !.players[s] = newPlayer(c, cn, stats)]]
         /\ sock' = [sock EXCEPT ![c].room = code, ![c].role = "player",
                                 ![c].seat = s, ![c].cooldowns = ZeroCooldowns]
         /\ last' = Ev("joinSeat", c, code, s, "ok")
         /\ out' = Out(code, 1, TRUE)
         /\ UNCHANGED <<now, timeouts, cdDue>>

\* startMatch's per-player reset loop body
ResetPlayer(p) ==
    LET sp == cornerToSpawn(p.corner) IN
    [p EXCEPT !.hp = p.hpMax, !.shield = 0, !.stink = FALSE,
              !.healLeft = MAX_USES, !.defendLeft = MAX_USES,
              !.noDamageUntil = 0, !.halfDamageUntil = 0, !.skillSpeedMultUntil = 0,
              !.powerPenaltyUntil = 0, !.cooldownMultUntil = 0,
              !.x = sp.x, !.y = sp.y]

\* socket.on("startMatch")
StartMatch(c, code, pass) ==
    /\ ArenaFrame
    /\ sock[c].conn = "open"
    /\ LET r == rooms[code] IN
       IF r = NoRoom THEN Reject("startMatch", c, code, NULL, "Room not found.")
       ELSE IF r.pass # pass THEN Reject("startMatch", c, code, NULL, "Wrong password.")
       ELSE IF r.hostId # c THEN Reject("startMatch", c, code, NULL, "Only host can start.")
       ELSE IF r.players["A"] = NoPlayer \/ r.players["B"] = NoPlayer
            THEN Reject("startMatch", c, code, NULL, "Need Player A and B.")
       ELSE
         /\ rooms' = [rooms EXCEPT ![code] =
                        [r EXCEPT !.players = [s \in Seats |-> ResetPlayer(r.players[s])],
                                  !.winner = NULL, !.loser = NULL,
                                  !.started = TRUE,
                                  !.endsAt = now + MATCH_DURATION_MS,
                                  !.nextModAt = now + MOD_INTERVAL_MS]]
         /\ last' = Ev("startMatch", c, code, NULL, "ok")
         /\ out' = Out(code, 1, TRUE)
         /\ UNCHANGED <<now, sock, timeouts, cdDue>>

-----------------------------------------------------------------------------
(* src/server.js: movement *)

Step(dir) ==
    [x |-> (IF dir = "L" THEN -1 ELSE IF dir = "R" THEN 1 ELSE 0),
     y |-> (IF dir = "U" THEN -1 ELSE IF dir = "D" THEN 1 ELSE 0)]

\* Mutant: movePlayer without the occupied-cell check.
movePlayerThroughOpponent(r, seat, dir) ==
    LET p == r.players[seat] IN
    IF p = NoPlayer THEN r
    ELSE LET nx == p.x + Step(dir).x
             ny == p.y + Step(dir).y
         IN IF ~canMoveTo(nx, ny) THEN r
            ELSE [r EXCEPT !.players[seat].x = nx, !.players[seat].y = ny]

\* movePlayer(room, seat, dir): the room after the call
movePlayer(r, seat, dir) ==
    LET p == r.players[seat]
        other == r.players[OtherSeat(seat)]
    IN IF p = NoPlayer THEN r
       ELSE LET nx == p.x + Step(dir).x
                ny == p.y + Step(dir).y
            IN IF ~canMoveTo(nx, ny) THEN r
               ELSE IF other # NoPlayer /\ other.x = nx /\ other.y = ny THEN r
               ELSE [r EXCEPT !.players[seat].x = nx, !.players[seat].y = ny]

\* The guards of socket.on("move") and socket.on("action") before any effect:
\* the reason the event is dropped, or "ok".
MoveGate(c, code) ==
    IF rooms[code] = NoRoom \/ ~rooms[code].started THEN "not running"
    ELSE IF sock[c].role # "player" THEN "not a player"
    ELSE IF sock[c].seat = NULL THEN "no seat"
    ELSE "ok"

\* Mutant: the action handler without its started check.
ActionGateIgnoresStarted(c, code) ==
    IF rooms[code] = NoRoom THEN "not running"
    ELSE IF sock[c].role # "player" THEN "not a player"
    ELSE IF sock[c].seat = NULL THEN "no seat"
    ELSE IF rooms[code].players[sock[c].seat] = NoPlayer THEN "no player"
    ELSE "ok"

ActionGate(c, code) ==
    IF rooms[code] = NoRoom \/ ~rooms[code].started THEN "not running"
    ELSE IF sock[c].role # "player" THEN "not a player"
    ELSE IF sock[c].seat = NULL THEN "no seat"
    ELSE IF rooms[code].players[sock[c].seat] = NoPlayer THEN "no player"
    ELSE "ok"

\* socket.on("move")
Move(c, code, dir) ==
    /\ ArenaFrame
    /\ sock[c].conn = "open"
    /\ IF MoveGate(c, code) # "ok" THEN Reject("move", c, code, dir, MoveGate(c, code))
       ELSE LET r1 == movePlayer(rooms[code], sock[c].seat, dir) IN
            /\ rooms' = [rooms EXCEPT ![code] = r1]
            /\ last' = Ev("move", c, code, dir,
                          IF r1 = rooms[code] THEN "blocked" ELSE "ok")
            /\ out' = Out(code, 0, TRUE)
            /\ UNCHANGED <<now, sock, timeouts, cdDue>>

-----------------------------------------------------------------------------
(* src/server.js: attack resolution *)

\* Mutant: the difference is truncated instead of rounded.
BaseDamageTruncates(atk, def) == Max(1, (2 * atk - def) \div 2)

\* Math.max(1, Math.round(a.atk - d.def / 2))
BaseDamage(atk, def) == Max(1, RoundHalf(2 * atk - def))

\* Mutant: the shield blocks its whole value whatever the damage.
BlockedWholeShield(dmg, shield) == shield

\* const blocked = Math.min(dmg, d.shield)
Blocked(dmg, shield) == Min(dmg, shield)

\* d.shield = Math.max(0, d.shield - blocked)
ShieldAfter(shield, blocked) == Max(0, shield - blocked)

\* d.hp = Math.max(0, d.hp - dmg)
HpAfterHit(hp, dmg) == Max(0, hp - dmg)

\* The damage that reaches hp: after the shield, the attacker's no-damage bonus
\* (draw rnd.nodmg) and the defender's half-damage bonus.
DamageDealt(a, d, t, rnd) ==
    LET dmg0 == BaseDamage(a.atk, d.def)
        dmg1 == IF d.shield > 0 THEN dmg0 - Blocked(dmg0, d.shield) ELSE dmg0
        dmg2 == IF a.noDamageUntil > t /\ rnd.nodmg THEN 0 ELSE dmg1
    IN IF d.halfDamageUntil > t THEN RoundHalf(dmg2) ELSE dmg2

\* The defender's cell after the hit: the teleport of the half-damage bonus
\* (draws rnd.tp, rnd.dx, rnd.dy).
Teleport(d, t, rnd) ==
    IF d.halfDamageUntil > t /\ rnd.tp
    THEN [x |-> clamp(Num(d.x + rnd.dx), 1, W - 2), y |-> clamp(Num(d.y + rnd.dy), 1, H - 2)]
    ELSE [x |-> d.x, y |-> d.y]

\* The outcome of resolveAttack's guards.
AttackGate(r, attackerSeat) ==
    LET a == r.players[attackerSeat]
        d == r.players[OtherSeat(attackerSeat)]
    IN IF a = NoPlayer \/ d = NoPlayer THEN "no opponent"
       ELSE IF dist(a, d) > 1 THEN "too far"
       ELSE "ok"

\* Mutant: the win check names winner and loser but leaves the match running.
EndByDeathKeepsRunning(r, attackerSeat) ==
    IF r.players[OtherSeat(attackerSeat)].hp <= 0
    THEN [r EXCEPT !.winner = attackerSeat, !.loser = OtherSeat(attackerSeat)]
    ELSE r

\* The win check that ends resolveAttack.
EndByDeath(r, attackerSeat) ==
    IF r.players[OtherSeat(attackerSeat)].hp <= 0
    THEN [r EXCEPT !.winner = attackerSeat, !.loser = OtherSeat(attackerSeat),
                   !.started = FALSE]
    ELSE r

\* resolveAttack(room, attackerSeat): the room after the call
resolveAttack(r, attackerSeat, t, rnd) ==
    IF AttackGate(r, attackerSeat) # "ok" THEN r
    ELSE
      LET bSeat == OtherSeat(attackerSeat)
          a == r.players[attackerSeat]
          d == r.players[bSeat]
          dmg0 == BaseDamage(a.atk, d.def)
          pos == Teleport(d, t, rnd)
          d1 == [d EXCEPT
                   !.shield = IF d.shield > 0
                              THEN ShieldAfter(d.shield, Blocked(dmg0, d.shield))
                              ELSE d.shield,
                   !.x = pos.x, !.y = pos.y,
                   !.hp = HpAfterHit(d.hp, DamageDealt(a, d, t, rnd))]
      IN EndByDeath([r EXCEPT !.players[bSeat] = d1], attackerSeat)

\* The number of pushLog calls resolveAttack(room, attackerSeat) makes.
resolveAttackLogs(r, attackerSeat, t, rnd) ==
    IF AttackGate(r, attackerSeat) = "no opponent" THEN 0
    ELSE IF AttackGate(r, attackerSeat) = "too far" THEN 1
    ELSE
      LET a == r.players[attackerSeat]
          d == r.players[OtherSeat(attackerSeat)]
      IN (IF d.shield > 0 THEN 1 ELSE 0)
         + (IF a.noDamageUntil > t /\ rnd.nodmg THEN 1 ELSE 0)
         + (IF d.halfDamageUntil > t /\ rnd.tp THEN 1 ELSE 0)
         + 1
         + (IF HpAfterHit(d.hp, DamageDealt(a, d, t, rnd)) <= 0 THEN 2 ELSE 0)

-----------------------------------------------------------------------------
(* src/server.js: socket.on("action") *)

\* t + Math.round(COOLDOWNS_BASE[kind] * cdMult)
NextOk(t, kind, mult) == t + RoundTenths(COOLDOWNS_BASE[kind] * mult)

\* Mutant: a heal without the hpMax cap.
HpAfterHealUncapped(p) == p.hp + clamp(Num(p.heal), 0, 999)

\* p.hp = Math.min(p.hpMax, p.hp + clamp(p.heal, 0, 999))
HpAfterHeal(p) == Min(p.hpMax, p.hp + clamp(Num(p.heal), 0, 999))

\* p.shield += clamp(p.def + 10, 5, 200)
ShieldAfterDefend(p) == p.shield + clamp(Num(p.def + 10), 5, 200)

\* Mutant: the uses check never refuses.
NoUsesLeftNever(left) == FALSE

\* if (p.healLeft <= 0) / if (p.defendLeft <= 0)
NoUsesLeft(left) == left <= 0

\* Whether the cooldown gate lets an attempt of this kind through at time t.
CooldownOpen(c, kind, t) == ~(t < sock[c].cooldowns[kind])

\* The multiplier the cooldown rule names, in tenths: slow 1.5, else fast 0.6, else 1.
RuleMult(p, t) ==
    IF p.cooldownMultUntil > t THEN 15 ELSE IF p.skillSpeedMultUntil > t THEN 6 ELSE 10

Used(c, kind, p) ==
    /\ sock' = [sock EXCEPT ![c].cooldowns[kind] =
                              NextOk(now, kind, effectiveCooldownMult(p, now))]
    /\ cdDue' = [cdDue EXCEPT ![c][kind] = NextOk(now, kind, RuleMult(p, now))]

ActAttack(c, code, seat, p, rnd) ==
    IF ~CooldownOpen(c, "attack", now) THEN Reject("action", c, code, "attack", "cooldown")
    ELSE /\ Used(c, "attack", p)
         /\ rooms' = [rooms EXCEPT ![code] = resolveAttack(rooms[code], seat, now, rnd)]
         /\ last' = Ev("action", c, code, "attack", AttackGate(rooms[code], seat))
         /\ out' = Out(code, resolveAttackLogs(rooms[code], seat, now, rnd), TRUE)
         /\ UNCHANGED <<now, timeouts>>

ActHeal(c, code, seat, p) ==
    IF ~CooldownOpen(c, "heal", now) THEN Reject("action", c, code, "heal", "cooldown")
    ELSE IF NoUsesLeft(p.healLeft)
    THEN /\ last' = Ev("action", c, code, "heal", "no uses")
         /\ out' = Out(code, 1, FALSE)
         /\ UNCHANGED <<now, rooms, sock, timeouts, cdDue>>
    ELSE /\ Used(c, "heal", p)
         /\ rooms' = [rooms EXCEPT ![code].players[seat] =
                        [p EXCEPT !.healLeft = p.healLeft - 1, !.hp = HpAfterHeal(p)]]
         /\ last' = Ev("action", c, code, "heal", "ok")
         /\ out' = Out(code, 1, TRUE)
         /\ UNCHANGED <<now, timeouts>>

ActDefend(c, code, seat, p) ==
    IF ~CooldownOpen(c, "defend", now) THEN Reject("action", c, code, "defend", "cooldown")
    ELSE IF NoUsesLeft(p.defendLeft)
    THEN /\ last' = Ev("action", c, code, "defend", "no uses")
         /\ out' = Out(code, 1, FALSE)
         /\ UNCHANGED <<now, rooms, sock, timeouts, cdDue>>
    ELSE /\ Used(c, "defend", p)
         /\ rooms' = [rooms EXCEPT ![code].players[seat] =
                        [p EXCEPT !.defendLeft = p.defendLeft - 1,
                                  !.shield = ShieldAfterDefend(p)]]
         /\ last' = Ev("action", c, code, "defend", "ok")
         /\ out' = Out(code, 1, TRUE)
         /\ UNCHANGED <<now, timeouts>>

\* socket.on("action")
Action(c, code, type, rnd) ==
    /\ ArenaFrame
    /\ sock[c].conn = "open"
    /\ IF ActionGate(c, code) # "ok" THEN Reject("action", c, code, type, ActionGate(c, code))
       ELSE LET seat == sock[c].seat
                p == rooms[code].players[seat]
            IN IF type = "attack" THEN ActAttack(c, code, seat, p, rnd)
               ELSE IF type = "heal" THEN ActHeal(c, code, seat, p)
               ELSE ActDefend(c, code, seat, p)

-----------------------------------------------------------------------------
(* src/server.js: disconnect *)

\* socket.on("disconnect")
Disconnect(c) ==
    /\ ArenaFrame
    /\ sock[c].conn = "open"
    /\ sock' = [sock EXCEPT ![c].conn = "closed"]
    /\ LET code == sock[c].room IN
       IF code = NULL \/ rooms[code] = NoRoom THEN UNCHANGED rooms
       ELSE LET r == rooms[code] IN
            rooms' = [rooms EXCEPT ![code] =
              [r EXCEPT !.hostId = IF r.hostId = c THEN NULL ELSE r.hostId,
                        !.sockets = [s \in Seats |->
                                       IF r.sockets[s] = c THEN NULL ELSE r.sockets[s]],
                        !.players = [s \in Seats |->
                                       IF r.sockets[s] = c THEN NoPlayer ELSE r.players[s]]]]
    /\ last' = Ev("disconnect", c, sock[c].room, NULL, "ok")
    /\ out' = IF sock[c].room = NULL \/ rooms[sock[c].room] = NoRoom THEN NoOut
              ELSE Out(sock[c].room, 0, TRUE)
    /\ UNCHANGED <<now, timeouts, cdDue>>

-----------------------------------------------------------------------------
(* src/server.js: the modifier scheduler and the periodic tick *)

\* A draw of applyMod: target seat, polarity, modType 1..3.
ModDraws == [seat : Seats, bonus : BOOLEAN, type : 1..3]

\* Mutant: an application adds its window to the timer it finds.
SetUntilAdds(prev, t) == prev + t + MOD_INTERVAL_MS

\* p.<timer> = until, with until = now() + MOD_INTERVAL_MS: the value stored over
\* the previous one
SetUntil(prev, t) == t + MOD_INTERVAL_MS

\* applyMod(room) with draw m at time t: the room after the call
applyMod(r, m, t) ==
    LET p == r.players[m.seat] IN
    IF p = NoPlayer THEN r
    ELSE [r EXCEPT !.players[m.seat] =
           IF ~m.bonus
           THEN IF m.type = 1
                THEN [p EXCEPT !.powerPenaltyUntil = SetUntil(p.powerPenaltyUntil, t)]
                ELSE IF m.type = 2
                THEN [p EXCEPT !.cooldownMultUntil = SetUntil(p.cooldownMultUntil, t)]
                ELSE [p EXCEPT !.stink = TRUE]
           ELSE IF m.type = 1
                THEN [p EXCEPT !.noDamageUntil = SetUntil(p.noDamageUntil, t)]
                ELSE IF m.type = 2
                THEN [p EXCEPT !.skillSpeedMultUntil = SetUntil(p.skillSpeedMultUntil, t)]
                ELSE [p EXCEPT !.halfDamageUntil = SetUntil(p.halfDamageUntil, t)]]

\* The setTimeout calls applyMod makes: the stink clear, due one interval later.
\* The closure holds the room code and the seat; endsAt and id record the match
\* and the player the call was made for (the callback does not read them).
applyModTimeouts(r, m, t) ==
    IF r.players[m.seat] # NoPlayer /\ ~m.bonus /\ m.type = 3
    THEN {[code |-> r.code, seat |-> m.seat, at |-> t + MOD_INTERVAL_MS,
           endsAt |-> r.endsAt, id |-> r.players[m.seat].id]}
    ELSE {}

ModDue(r, t) == r # NoRoom /\ r.started /\ r.nextModAt # 0 /\ t >= r.nextModAt

\* The winner decision of the tick at timeout.
TimeoutWinner(A, B, t) ==
    IF A.hp > B.hp THEN "A"
    ELSE IF B.hp > A.hp THEN "B"
    ELSE IF effectivePower(A, t) >= effectivePower(B, t) THEN "A"
    ELSE "B"

\* Mutant: the tick never ends a match.
EndByTimeoutNever(r, t) == r

\* Mutant: the timeout names a winner and no loser.
EndByTimeoutWinnerOnly(r, t) ==
    IF r.endsAt # 0 /\ t >= r.endsAt
    THEN LET A == r.players["A"]
             B == r.players["B"]
         IN IF A # NoPlayer /\ B # NoPlayer
            THEN [r EXCEPT !.started = FALSE, !.winner = TimeoutWinner(A, B, t)]
            ELSE [r EXCEPT !.started = FALSE]
    ELSE r

\* The "end match" block of the tick.
EndByTimeout(r, t) ==
    IF r.endsAt # 0 /\ t >= r.endsAt
    THEN LET A == r.players["A"]
             B == r.players["B"]
         IN IF A # NoPlayer /\ B # NoPlayer
            THEN [r EXCEPT !.started = FALSE,
                           !.winner = TimeoutWinner(A, B, t),
                           !.loser = OtherSeat(TimeoutWinner(A, B, t))]
            ELSE [r EXCEPT !.started = FALSE]
    ELSE r

\* Mutant: the scheduler re-arms for the instant it ran at.
NextModAtNow(t) == t

\* r.nextModAt = t + MOD_INTERVAL_MS
NextModAt(t) == t + MOD_INTERVAL_MS

\* The body of the tick's loop for one room, with draw m for applyMod.
TickRoom(r, m, t) ==
    IF r = NoRoom \/ ~r.started THEN r
    ELSE LET r1 == IF ModDue(r, t)
                   THEN [applyMod(r, m, t) EXCEPT !.nextModAt = NextModAt(t)]
                   ELSE r
         IN EndByTimeout(r1, t)

\* What the tick's loop body sends to one room: applyMod's throw, log and state
\* (none when the drawn seat is empty), the timeout's log and state.
TickOut(r, m, t) ==
    IF r = NoRoom \/ ~r.started THEN [logs |-> 0, emits |-> FALSE]
    ELSE LET modded == ModDue(r, t) /\ r.players[m.seat] # NoPlayer
             ended == r.endsAt # 0 /\ t >= r.endsAt
             both == r.players["A"] # NoPlayer /\ r.players["B"] # NoPlayer
         IN [logs |-> (IF modded THEN 1 ELSE 0) + (IF ended /\ both THEN 1 ELSE 0),
             emits |-> modded \/ ended]

\* The setInterval callback: one pass over all rooms; draws[code] is applyMod's draw.
Tick(draws) ==
    /\ ArenaFrame
    /\ rooms' = [code \in Codes |-> TickRoom(rooms[code], draws[code], now)]
    /\ timeouts' = timeouts \cup
          UNION {IF ModDue(rooms[code], now)
                 THEN applyModTimeouts(rooms[code], draws[code], now) ELSE {} : code \in Codes}
    /\ last' = Ev("tick", NULL, NULL, NULL, "ok")
    /\ out' = [code \in Codes |-> TickOut(rooms[code], draws[code], now)]
    /\ UNCHANGED <<now, sock, cdDue>>

\* The setTimeout callback of applyMod's stink branch.
StinkClear(tm) ==
    /\ ArenaFrame
    /\ tm \in timeouts
    /\ now >= tm.at
    /\ timeouts' = timeouts \ {tm}
    /\ LET r == rooms[tm.code] IN
       IF r = NoRoom \/ r.players[tm.seat] = NoPlayer THEN UNCHANGED rooms
       ELSE rooms' = [rooms EXCEPT ![tm.code].players[tm.seat].stink = FALSE]
    /\ last' = Ev("stinkClear", NULL, tm.code, tm.seat, "ok")
    /\ out' = IF rooms[tm.code] = NoRoom \/ rooms[tm.code].players[tm.seat] = NoPlayer
              THEN NoOut ELSE Out(tm.code, 0, TRUE)
    /\ UNCHANGED <<now, sock, cdDue>>

\* Mutant: pushLog without the eviction.
pushLogKeepsAll(entries, msg) == Append(entries, msg)

\* pushLog(room, msg): room.log after the call
pushLog(entries, msg) ==
    IF Len(Append(entries, msg)) > LOG_CAP THEN Tail(Append(entries, msg))
    ELSE Append(entries, msg)

\* roomPublic's log: room.log.slice(-30)
roomPublicLog(entries) ==
    SubSeq(entries, Max(1, Len(entries) - LOG_SHOWN + 1), Len(entries))

\* One pushLog call, by whichever handler, on the log of a room; the message is
\* the call's arrival number.
PushLog(code) ==
    /\ variant = "arena"
    /\ log[code].pushed < MaxPushes
    /\ log' = [log EXCEPT ![code] =
                 [entries |-> pushLog(log[code].entries, log[code].pushed + 1),
                  pushed |-> log[code].pushed + 1]]
    /\ last' = Ev("pushLog", NULL, code, NULL, "ok")
    /\ UNCHANGED <<variant, now, avars, gvars>>

\* now(): the wall clock moves on to a later instant.
Advance(t) ==
    /\ ArenaFrame
    /\ t > now
    /\ now' = t
    /\ last' = Ev("clock", NULL, NULL, NULL, "ok")
    /\ out' = NoOut
    /\ UNCHANGED <<rooms, sock, timeouts, cdDue>>

-----------------------------------------------------------------------------
(* src/unnamed/part_000: the 4x4 grid variant *)

GRID_W == 4
GRID_H == 4
GAME_DURATION_MS == 240000
EVENT_INTERVAL_MS == 60000
MAX_DEFEND == 6
MAX_HEAL == 6
HEAL_AMOUNT == 10

\* clampInt(n, min, max, fallback): parseInt; NaN gives the fallback.
clampInt(n, min, max, fallback) ==
    IF n.k # "num" THEN fallback ELSE Max(min, Min(max, n.v))

manhattan(a, b) == Abs(a.x - b.x) + Abs(a.y - b.y)

SeatSpawn(seat) ==
    IF seat = "A" THEN [x |-> 0, y |-> 0] ELSE [x |-> GRID_W - 1, y |-> GRID_H - 1]

initialPlayerState(seat, stats) ==
    [ seat |-> seat, connected |-> TRUE,
      hpMax |-> clampInt(stats.hpMax, 10, 200, 50),
      atk |-> clampInt(stats.atk, 1, 50, 10),
      def |-> clampInt(stats.def, 0, 50, 5),
      hp |-> clampInt(stats.hpMax, 10, 200, 50),
      pos |-> SeatSpawn(seat),
      usedDefend |-> 0, usedHeal |-> 0, shield |-> 0, socketId |-> NULL ]

\* timers: { event: null, tick: null }: the handle of no timer.
NoTimer == 0

\* The room object ensureRoom creates.
ensureRoom(pass) ==
    [ code |-> "room", pass |-> pass, hostId |-> NULL,
      players |-> [s \in Seats |-> NoPlayer],
      started |-> FALSE, startTime |-> NULL, endTime |-> NULL,
      timers |-> [event |-> NoTimer, tick |-> NoTimer] ]

\* Mutant: stopTimers forgets the handles without clearing the intervals.
stopTimersLiveKeepsAll(r, live) == live

\* The live timers left by stopTimers(room).
stopTimersLive(r, live) ==
    {iv \in live : ~( \/ (r.timers.event # NoTimer /\ iv.id = r.timers.event)
                      \/ (r.timers.tick # NoTimer /\ iv.id = r.timers.tick) )}

\* The room after stopTimers(room).
stopTimers(r) == [r EXCEPT !.timers = [event |-> NoTimer, tick |-> NoTimer]]

\* The per-player reset of resetGame.
ResetPlayer4(p) ==
    IF p = NoPlayer THEN p
    ELSE [p EXCEPT !.hp = p.hpMax, !.usedDefend = 0, !.usedHeal = 0, !.shield = 0,
                   !.pos = SeatSpawn(p.seat), !.connected = TRUE]

\* The room after resetGame(room).
resetGame(r) ==
    [stopTimers(r) EXCEPT !.started = FALSE, !.startTime = NULL, !.endTime = NULL,
                          !.players = [s \in Seats |-> ResetPlayer4(r.players[s])]]

\* The room after endGame(room, reason).
endGame(r) == [stopTimers(r) EXCEPT !.started = FALSE]

\* socketRoleInRoom(socket, room)
socketRoleInRoom(c, r) ==
    IF r = NoRoom THEN [role |-> "none", seat |-> NULL]
    ELSE IF r.hostId = c THEN [role |-> "host", seat |-> NULL]
    ELSE IF r.players["A"] # NoPlayer /\ r.players["A"].socketId = c
         THEN [role |-> "player", seat |-> "A"]
    ELSE IF r.players["B"] # NoPlayer /\ r.players["B"].socketId = c
         THEN [role |-> "player", seat |-> "B"]
    ELSE [role |-> "spectator", seat |-> NULL]

Reject4(op, c, code, arg, res) ==
    /\ last' = Ev(op, c, code, arg, res)
    /\ UNCHANGED <<now, rooms4, sock4, intervals4>>

\* io.on("connection")
Connect4(c) ==
    /\ GridFrame
    /\ sock4[c].conn = "new"
    /\ sock4' = [sock4 EXCEPT ![c].conn = "open"]
    /\ last' = Ev("connection", c, NULL, NULL, "ok")
    /\ UNCHANGED <<now, rooms4, intervals4>>

\* socket.on("hostRoom")
HostRoom4(c, code, pass) ==
    /\ GridFrame
    /\ sock4[c].conn = "open"
    /\ IF rooms4[code] # NoRoom /\ rooms4[code].pass # pass
       THEN Reject4("hostRoom", c, code, NULL, "Wrong password.")
       ELSE LET r == IF rooms4[code] = NoRoom THEN ensureRoom(pass) ELSE rooms4[code] IN
            /\ rooms4' = [rooms4 EXCEPT ![code] = [r EXCEPT !.hostId = c]]
            /\ sock4' = [sock4 EXCEPT ![c].room = code]
            /\ last' = Ev("hostRoom", c, code, NULL, "ok")
            /\ UNCHANGED <<now, intervals4>>

\* The stats joinSeat writes while the game is not started.
Restat4(p, stats) ==
    LET hm == clampInt(stats.hpMax, 10, 200, p.hpMax) IN
    [p EXCEPT !.hpMax = hm,
              !.atk = clampInt(stats.atk, 1, 50, p.atk),
              !.def = clampInt(stats.def, 0, 50, p.def),
              !.hp = hm]

\* socket.on("joinSeat")
JoinSeat4(c, code, pass, seat, stats) ==
    /\ GridFrame
    /\ sock4[c].conn = "open"
    /\ LET r == rooms4[code] IN
       IF r = NoRoom THEN Reject4("joinSeat", c, code, seat, "Room does not exist.")
       ELSE IF r.pass # pass THEN Reject4("joinSeat", c, code, seat, "Wrong password.")
       ELSE IF seat \notin Seats THEN Reject4("joinSeat", c, code, seat, "Seat must be A or B.")
       ELSE IF /\ r.players[seat] # NoPlayer
               /\ r.players[seat].socketId # NULL
               /\ r.players[seat].socketId # c
            THEN Reject4("joinSeat", c, code, seat, "Seat already taken.")
       ELSE
         LET p0 == IF r.players[seat] # NoPlayer THEN r.players[seat]
                   ELSE initialPlayerState(seat, stats)
             p1 == IF ~r.started THEN Restat4(p0, stats) ELSE p0
             p2 == [p1 EXCEPT !.socketId = c, !.connected = TRUE]
         IN /\ rooms4' = [rooms4 EXCEPT ![code].players[seat] = p2]
            /\ sock4' = [sock4 EXCEPT ![c].room = code]
            /\ last' = Ev("joinSeat", c, code, seat, "ok")
            /\ UNCHANGED <<now, intervals4>>

\* A handle for a new timer: the least one not live.
FreshTimer(live) == CHOOSE n \in 1..(Cardinality(live) + 2) :
                        /\ \A iv \in live : iv.id # n
                        /\ \A m \in 1..(n - 1) : \E iv \in live : iv.id = m

\* startGame(room): the room and the live timers after the call
startGame(r, live, code, t) ==
    IF r.players["A"] = NoPlayer \/ r.players["B"] = NoPlayer
    THEN [room |-> r, live |-> live]
    ELSE LET live0 == stopTimersLive(r, live)
             ev == FreshTimer(live0)
             tk == ev + 1
         IN [ room |-> [resetGame(r) EXCEPT !.started = TRUE, !.startTime = t,
                                            !.endTime = t + GAME_DURATION_MS,
                                            !.timers = [event |-> ev, tick |-> tk]],
              live |-> live0 \cup
                       {[kind |-> "event", id |-> ev, code |-> code,
                         due |-> t + EVENT_INTERVAL_MS],
                        [kind |-> "tick", id |-> tk, code |-> code, due |-> 0]} ]

\* socket.on("hostStartReset")
HostStartReset4(c, code, pass, action) ==
    /\ GridFrame
    /\ sock4[c].conn = "open"
    /\ LET r == rooms4[code] IN
       IF r = NoRoom THEN Reject4("hostStartReset", c, code, action, "no room")
       ELSE IF r.pass # pass THEN Reject4("hostStartReset", c, code, action, "wrong password")
       ELSE IF r.hostId # c
            THEN Reject4("hostStartReset", c, code, action, "Only host can do that.")
       ELSE IF action = "start"
            THEN LET g == startGame(r, intervals4, code, now) IN
                 /\ rooms4' = [rooms4 EXCEPT ![code] = g.room]
                 /\ intervals4' = g.live
                 /\ last' = Ev("hostStartReset", c, code, action,
                               IF r.players["A"] = NoPlayer \/ r.players["B"] = NoPlayer
                               THEN "Need both players" ELSE "ok")
                 /\ UNCHANGED <<now, sock4>>
       ELSE IF action = "reset"
            THEN /\ rooms4' = [rooms4 EXCEPT ![code] = resetGame(r)]
                 /\ intervals4' = stopTimersLive(r, intervals4)
                 /\ last' = Ev("hostStartReset", c, code, action, "ok")
                 /\ UNCHANGED <<now, sock4>>
       ELSE Reject4("hostStartReset", c, code, action, "unknown action")

\* The guards shared by socket.on("move") and socket.on("action").
Gate4(c, code, pass) ==
    LET r == rooms4[code] IN
    IF r = NoRoom THEN "no room"
    ELSE IF r.pass # pass THEN "wrong password"
    ELSE IF socketRoleInRoom(c, r).role # "player" THEN "not a player"
    ELSE IF ~r.started THEN "Game not started."
    ELSE "ok"

Delta4(dir) ==
    [x |-> (IF dir = "left" THEN -1 ELSE IF dir = "right" THEN 1 ELSE 0),
     y |-> (IF dir = "up" THEN -1 ELSE IF dir = "down" THEN 1 ELSE 0)]

\* socket.on("move")
Move4(c, code, pass, dir) ==
    /\ GridFrame
    /\ sock4[c].conn = "open"
    /\ IF Gate4(c, code, pass) # "ok" THEN Reject4("move", c, code, dir, Gate4(c, code, pass))
       ELSE LET r == rooms4[code]
                seat == socketRoleInRoom(c, r).seat
                p == r.players[seat]
                o == r.players[OtherSeat(seat)]
                nx == p.pos.x + Delta4(dir).x
                ny == p.pos.y + Delta4(dir).y
            IN IF nx < 0 \/ nx >= GRID_W \/ ny < 0 \/ ny >= GRID_H
               THEN Reject4("move", c, code, dir, "off grid")
               ELSE IF o # NoPlayer /\ o.pos.x = nx /\ o.pos.y = ny
               THEN Reject4("move", c, code, dir, "Tile occupied.")
               ELSE /\ rooms4' = [rooms4 EXCEPT ![code].players[seat].pos =
                                                   [x |-> nx, y |-> ny]]
                    /\ last' = Ev("move", c, code, dir, "ok")
                    /\ UNCHANGED <<now, sock4, intervals4>>

\* The attack branch's damage: Math.max(1, me.atk - them.def), halved by a shield.
Damage4(me, them) ==
    LET dmg == Max(1, me.atk - them.def) IN
    IF them.shield > 0 THEN Max(1, dmg \div 2) ELSE dmg

\* them.hp -= dmg; if (them.hp <= 0) them.hp = 0
HpAfterHit4(hp, dmg) == IF hp - dmg <= 0 THEN 0 ELSE hp - dmg

\* me.hp = Math.min(me.hpMax, me.hp + amount)
HpAfterHeal4(p, amount) == Min(p.hpMax, p.hp + amount)

\* socket.on("action")
Action4(c, code, pass, type) ==
    /\ GridFrame
    /\ sock4[c].conn = "open"
    /\ IF Gate4(c, code, pass) # "ok"
       THEN Reject4("action", c, code, type, Gate4(c, code, pass))
       ELSE
         LET r == rooms4[code]
             seat == socketRoleInRoom(c, r).seat
             me == r.players[seat]
             them == r.players[OtherSeat(seat)]
         IN
         IF me = NoPlayer \/ them = NoPlayer
         THEN Reject4("action", c, code, type, "no opponent")
         ELSE IF type = "defend"
         THEN IF me.usedDefend >= MAX_DEFEND
              THEN Reject4("action", c, code, type, "Defend limit reached.")
              ELSE /\ rooms4' = [rooms4 EXCEPT ![code].players[seat] =
                                   [me EXCEPT !.usedDefend = me.usedDefend + 1, !.shield = 1]]
                   /\ last' = Ev("action", c, code, type, "ok")
                   /\ UNCHANGED <<now, sock4, intervals4>>
         ELSE IF type = "heal"
         THEN IF me.usedHeal >= MAX_HEAL
              THEN Reject4("action", c, code, type, "Heal limit reached.")
              ELSE /\ rooms4' = [rooms4 EXCEPT ![code].players[seat] =
                                   [me EXCEPT !.usedHeal = me.usedHeal + 1,
                                              !.hp = HpAfterHeal4(me, HEAL_AMOUNT)]]
                   /\ last' = Ev("action", c, code, type, "ok")
                   /\ UNCHANGED <<now, sock4, intervals4>>
         ELSE IF manhattan(me.pos, them.pos) # 1
         THEN Reject4("action", c, code, type, "You must be adjacent to attack.")
         ELSE LET hp1 == HpAfterHit4(them.hp, Damage4(me, them))
                  r1 == [r EXCEPT !.players[OtherSeat(seat)] =
                                     [them EXCEPT !.hp = hp1,
                                                  !.shield = IF them.shield > 0 THEN 0
                                                             ELSE them.shield]]
              IN /\ rooms4' = [rooms4 EXCEPT ![code] = IF hp1 <= 0 THEN endGame(r1) ELSE r1]
                 /\ intervals4' = IF hp1 <= 0 THEN stopTimersLive(r1, intervals4)
                                  ELSE intervals4
                 /\ last' = Ev("action", c, code, type, "ok")
                 /\ UNCHANGED <<now, sock4>>

\* socket.on("disconnect")
Disconnect4(c) ==
    /\ GridFrame
    /\ sock4[c].conn = "open"
    /\ sock4' = [sock4 EXCEPT ![c].conn = "closed"]
    /\ LET code == sock4[c].room IN
       IF code = NULL \/ rooms4[code] = NoRoom THEN UNCHANGED rooms4
       ELSE LET r == rooms4[code] IN
            rooms4' = [rooms4 EXCEPT ![code] =
              [r EXCEPT !.hostId = IF r.hostId = c THEN NULL ELSE r.hostId,
                        !.players = [s \in Seats |->
                           IF r.players[s] # NoPlayer /\ r.players[s].socketId = c
                           THEN [r.players[s] EXCEPT !.connected = FALSE, !.socketId = NULL]
                           ELSE r.players[s]]]]
    /\ last' = Ev("disconnect", c, sock4[c].room, NULL, "ok")
    /\ UNCHANGED <<now, intervals4>>

\* The minute events of applyMinuteEvent.
MinuteEvents ==
    {"atkUpA", "atkUpB", "defUpA", "defUpB", "atkDownBoth", "defDownBoth", "healBoth"}

\* pick.fn() on one player
EventOn(p, pick) ==
    IF p = NoPlayer THEN p
    ELSE IF pick \in {"atkUpA", "atkUpB"} /\ pick = "atkUp" \o p.seat
         THEN [p EXCEPT !.atk = p.atk + 2]
    ELSE IF pick \in {"defUpA", "defUpB"} /\ pick = "defUp" \o p.seat
         THEN [p EXCEPT !.def = p.def + 2]
    ELSE IF pick = "atkDownBoth" THEN [p EXCEPT !.atk = Max(1, p.atk - 1)]
    ELSE IF pick = "defDownBoth" THEN [p EXCEPT !.def = Max(0, p.def - 1)]
    ELSE IF pick = "healBoth" THEN [p EXCEPT !.hp = Min(p.hpMax, p.hp + 5)]
    ELSE p

\* applyMinuteEvent(room, minuteIndex) with draw pick: the room after the call
applyMinuteEvent(r, pick) ==
    IF r = NoRoom \/ ~r.started THEN r
    ELSE [r EXCEPT !.players = [s \in Seats |-> EventOn(r.players[s], pick)]]

\* The event setInterval callback of startGame.
MinuteEvent4(iv, pick) ==
    /\ GridFrame
    /\ iv \in intervals4 /\ iv.kind = "event"
    /\ now >= iv.due
    /\ intervals4' = (intervals4 \ {iv}) \cup {[iv EXCEPT !.due = iv.due + EVENT_INTERVAL_MS]}
    /\ rooms4' = [rooms4 EXCEPT ![iv.code] =
                    IF rooms4[iv.code].started
                    THEN applyMinuteEvent(rooms4[iv.code], pick) ELSE rooms4[iv.code]]
    /\ last' = Ev("minuteEvent", NULL, iv.code, pick, "ok")
    /\ UNCHANGED <<now, sock4>>

\* Whether the tick callback ends the game.
TickEnds4(r, t) ==
    \/ (r.players["A"] # NoPlayer /\ r.players["A"].hp <= 0)
    \/ (r.players["B"] # NoPlayer /\ r.players["B"].hp <= 0)
    \/ t >= r.endTime

\* now(): the wall clock moves on to a later instant.
Advance4(t) ==
    /\ GridFrame
    /\ t > now
    /\ now' = t
    /\ last' = Ev("clock", NULL, NULL, NULL, "ok")
    /\ UNCHANGED gvars

\* The tick setInterval callback of startGame.
Tick4(iv) ==
    /\ GridFrame
    /\ iv \in intervals4 /\ iv.kind = "tick"
    /\ LET r == rooms4[iv.code] IN
       IF r.started /\ TickEnds4(r, now)
       THEN /\ rooms4' = [rooms4 EXCEPT ![iv.code] = endGame(r)]
            /\ intervals4' = stopTimersLive(r, intervals4)
       ELSE UNCHANGED <<rooms4, intervals4>>
    /\ last' = Ev("tick", NULL, iv.code, NULL, "ok")
    /\ UNCHANGED <<now, sock4>>

-----------------------------------------------------------------------------
(* Inputs and specifications *)

\* Stats requests.
StatsNone == [hpMax |-> Undef, atk |-> Undef, def |-> Undef, heal |-> Undef, power |-> Undef]
StatsHostile ==
    [hpMax |-> Num(5), atk |-> Num(1000000), def |-> Num(-5), heal |-> Num(1000000),
     power |-> NaN]
StatsWeak ==
    [hpMax |-> Num(30), atk |-> Num(3), def |-> Num(0), heal |-> Num(10), power |-> Num(6000)]
StatsFighter ==
    [hpMax |-> Num(40), atk |-> Num(16), def |-> Num(0), heal |-> Num(10), power |-> Num(5000)]
StatsRival ==
    [hpMax |-> Num(30), atk |-> Num(16), def |-> Num(0), heal |-> Num(10), power |-> Num(6000)]
StatsTwin ==
    [hpMax |-> Num(40), atk |-> Num(16), def |-> Num(0), heal |-> Num(10), power |-> Num(6000)]

\* Draws of resolveAttack's Math.random() calls.
AttackDraws ==
    [nodmg : BOOLEAN, tp : BOOLEAN, dx : {-TELEPORT_JUMP, TELEPORT_JUMP},
     dy : {-TELEPORT_JUMP, TELEPORT_JUMP}]
NoLuck == [nodmg |-> FALSE, tp |-> FALSE, dx |-> TELEPORT_JUMP, dy |-> TELEPORT_JUMP]

\* The instants the clock takes: the minute marks.
MinuteMarks == {m * MOD_INTERVAL_MS : m \in 0..MaxMinute}

\* The cells within MaxWalk of a spawn cell.
InRegion(x, y) ==
    \E corner \in Corners :
        /\ Abs(x - cornerToSpawn(corner).x) <= MaxWalk
        /\ Abs(y - cornerToSpawn(corner).y) <= MaxWalk

\* Moves are enumerated when the candidate cell is in the region or off the grid.
MoveEnumerated(c, code, dir) ==
    LET seat == sock[c].seat IN
    IF seat = NULL THEN TRUE
    ELSE IF rooms[code] = NoRoom THEN TRUE
    ELSE IF rooms[code].players[seat] = NoPlayer THEN TRUE
    ELSE LET p == rooms[code].players[seat]
             nx == p.x + Step(dir).x
             ny == p.y + Step(dir).y
         IN IF canMoveTo(nx, ny) THEN InRegion(nx, ny) ELSE TRUE

\* Only a due modifier reads its draw.
DrawsOver(mods) ==
    {d \in [Codes -> mods] :
        \A code \in Codes : ModDue(rooms[code], now) \/ d[code] = CHOOSE m \in mods : TRUE}

\* A joinSeat request.
Join(c, code, seat, corner, stats) ==
    [c |-> c, code |-> code, seat |-> seat, corner |-> corner, stats |-> stats]

\* The handlers every specification drives.
NextArena(I) ==
    \/ \E c \in I.ids : Connect(c)
    \/ \E c \in I.hosts, code \in I.codes, pass \in I.passes : HostCreate(c, code, pass)
    \/ \E j \in I.joins, pass \in I.passes :
          JoinSeat(j.c, j.code, pass, j.seat, j.corner, j.stats)
    \/ \E c \in I.hosts, code \in I.codes, pass \in I.passes : StartMatch(c, code, pass)
    \/ \E a \in I.acts, code \in I.codes, rnd \in I.rnds : Action(a[1], code, a[2], rnd)
    \/ \E draws \in DrawsOver(I.mods) : Tick(draws)
    \/ \E t \in I.times : Advance(t)

Moves(I) ==
    \E m \in I.moves, code \in I.codes :
        MoveEnumerated(m[1], code, m[2]) /\ Move(m[1], code, m[2])

Leaves(I) == \E c \in I.leavers : Disconnect(c)

StinkClears == \E tm \in timeouts : StinkClear(tm)

PowerPenalty(seat) == [seat |-> seat, bonus |-> FALSE, type |-> 1]
CooldownSlow(seat) == [seat |-> seat, bonus |-> FALSE, type |-> 2]
Stink(seat) == [seat |-> seat, bonus |-> FALSE, type |-> 3]
NoDamage(seat) == [seat |-> seat, bonus |-> TRUE, type |-> 1]
CooldownFast(seat) == [seat |-> seat, bonus |-> TRUE, type |-> 2]
HalfDamage(seat) == [seat |-> seat, bonus |-> TRUE, type |-> 3]

\* The life cycle of one room with attacks: create, join, start, move, attack,
\* leave, modifiers and timeout.
MainInputs ==
    [ ids |-> {"h", "a", "b"}, hosts |-> {"h"}, leavers |-> {"b"},
      codes |-> {"R1"}, passes |-> {"pw"},
      joins |-> {Join("a", "R1", "A", "TL", StatsFighter),
                 Join("b", "R1", "B", "TL", StatsRival)},
      moves |-> {<<"b", "R">>, <<"b", "L">>},
      acts |-> {<<"a", "attack">>, <<"b", "attack">>},
      rnds |-> {NoLuck},
      mods |-> {PowerPenalty("A"), Stink("B")},
      times |-> {0, MOD_INTERVAL_MS, MATCH_DURATION_MS} ]

Next == NextArena(MainInputs) \/ Moves(MainInputs) \/ Leaves(MainInputs) \/ StinkClears

Spec == Init /\ [][Next]_vars

\* Timeouts: every order of hp and power between the seats, a power penalty on
\* either seat, over the minute marks.
TimeoutInputs ==
    [ ids |-> {"h", "a", "b"}, hosts |-> {"h"},
      codes |-> {"R1"}, passes |-> {"pw"},
      joins |-> {Join("a", "R1", "A", "TL", StatsFighter),
                 Join("a", "R1", "A", "TL", StatsTwin),
                 Join("b", "R1", "B", "TL", StatsRival),
                 Join("b", "R1", "B", "TL", StatsTwin)},
      acts |-> {<<"b", "attack">>},
      rnds |-> {NoLuck},
      mods |-> {PowerPenalty("A"), PowerPenalty("B")},
      times |-> MinuteMarks ]

NextTimeout == NextArena(TimeoutInputs)

SpecTimeout == Init /\ [][NextTimeout]_vars

\* A joinSeat request of the grid variant.
Join4(c, code, seat, stats) == [c |-> c, code |-> code, seat |-> seat, stats |-> stats]

\* The handlers and timer callbacks of the grid variant.
NextGrid(G) ==
    \/ \E c \in G.ids : Connect4(c)
    \/ \E c \in G.hosts, code \in G.codes, pass \in G.passes : HostRoom4(c, code, pass)
    \/ \E j \in G.joins, pass \in G.passes : JoinSeat4(j.c, j.code, pass, j.seat, j.stats)
    \/ \E c \in G.hosts, code \in G.codes, pass \in G.passes, cmd \in G.cmds :
          HostStartReset4(c, code, pass, cmd)
    \/ \E m \in G.moves, code \in G.codes, pass \in G.passes : Move4(m[1], code, pass, m[2])
    \/ \E a \in G.acts, code \in G.codes, pass \in G.passes : Action4(a[1], code, pass, a[2])
    \/ \E iv \in intervals4, pick \in G.picks : MinuteEvent4(iv, pick)
    \/ \E iv \in intervals4 : Tick4(iv)
    \/ \E t \in G.times : Advance4(t)

Leaves4(G) == \E c \in G.leavers : Disconnect4(c)

\* Hit points in both variants: out-of-range stats requests, attacks, heals,
\* damage bonuses, minute events, resets and the timeout.
HpInputs ==
    [ ids |-> {"h", "a", "b"}, hosts |-> {"h"},
      codes |-> {"R1"}, passes |-> {"pw"},
      joins |-> {Join("a", "R1", "A", "TL", StatsHostile),
                 Join("b", "R1", "B", "TL", StatsWeak)},
      acts |-> {<<"a", "heal">>, <<"b", "attack">>},
      rnds |-> {NoLuck, [NoLuck EXCEPT !.nodmg = TRUE]},
      mods |-> {NoDamage("B"), HalfDamage("A")},
      times |-> {0, MOD_INTERVAL_MS, MATCH_DURATION_MS} ]

HpGrid ==
    [ ids |-> {"h", "a", "b"}, hosts |-> {"h"}, leavers |-> {"b"},
      codes |-> {"R1"}, passes |-> {"pw"},
      joins |-> {Join4("a", "R1", "A", StatsHostile),
                 Join4("b", "R1", "B", StatsWeak)},
      cmds |-> {"start", "reset"},
      moves |-> {<<"a", "right">>, <<"b", "up">>},
      acts |-> {<<"a", "heal">>, <<"b", "attack">>},
      picks |-> {"healBoth", "defDownBoth"},
      times |-> {0, EVENT_INTERVAL_MS, GAME_DURATION_MS} ]

NextHp == NextArena(HpInputs) \/ NextGrid(HpGrid) \/ Leaves4(HpGrid)

SpecHp == InitEither /\ [][NextHp]_vars

\* Use counters in both variants: six heals and six defends, one per cooldown
\* window, and further attempts.
StatsFrail ==
    [hpMax |-> Num(1), atk |-> Num(16), def |-> Num(0), heal |-> Num(1), power |-> Num(5000)]
StatsTank ==
    [hpMax |-> Num(20), atk |-> Num(1), def |-> Num(0), heal |-> Num(1), power |-> Num(5000)]
StatsTen ==
    [hpMax |-> Num(10), atk |-> Num(10), def |-> Num(0), heal |-> Num(1), power |-> Num(5000)]

\* The instants of the use-counter runs: one heal cooldown apart.
UseMarks == {k * CD_HEAL : k \in 0..MaxTries}

UsesInputs ==
    [ ids |-> {"h", "a", "b"}, hosts |-> {"h"},
      codes |-> {"R1"}, passes |-> {"pw"},
      joins |-> {Join("a", "R1", "A", "TL", StatsFrail),
                 Join("b", "R1", "B", "TL", StatsWeak)},
      acts |-> {<<"a", "heal">>, <<"a", "defend">>},
      rnds |-> {NoLuck},
      mods |-> {PowerPenalty("B")},
      times |-> UseMarks ]

UsesGrid ==
    [ ids |-> {"h", "a", "b"}, hosts |-> {"h"},
      codes |-> {"R1"}, passes |-> {"pw"},
      joins |-> {Join4("a", "R1", "A", StatsTank),
                 Join4("b", "R1", "B", StatsTen)},
      cmds |-> {"start"},
      moves |-> {<<"a", "right">>, <<"b", "up">>},
      acts |-> {<<"a", "heal">>, <<"a", "defend">>, <<"b", "attack">>},
      picks |-> {"defDownBoth"},
      times |-> {0, EVENT_INTERVAL_MS} ]

NextUses == NextArena(UsesInputs) \/ NextGrid(UsesGrid)

SpecUses == InitEither /\ [][NextUses]_vars

\* Shields: defends stacking a shield and attacks into it, with and without the
\* half-damage bonus.
ShieldInputs ==
    [ ids |-> {"h", "a", "b"}, hosts |-> {"h"},
      codes |-> {"R1"}, passes |-> {"pw"},
      joins |-> {Join("a", "R1", "A", "TL", StatsFighter),
                 Join("b", "R1", "B", "TL", StatsRival)},
      acts |-> {<<"a", "attack">>, <<"b", "defend">>},
      rnds |-> {NoLuck},
      mods |-> {HalfDamage("B")},
      times |-> {0, CD_DEFEND, MOD_INTERVAL_MS} ]

NextShield == NextArena(ShieldInputs)

SpecShield == Init /\ [][NextShield]_vars

\* Two rooms: a match in R1 and a socket seated in R2 that names R1.
RoomsInputs ==
    [ ids |-> {"h", "a", "b"}, hosts |-> {"h"},
      codes |-> {"R1", "R2"}, passes |-> {"pw"},
      joins |-> {Join("a", "R1", "A", "TL", StatsFighter),
                 Join("b", "R1", "B", "TL", StatsRival),
                 Join("h", "R2", "A", "TL", StatsTwin)},
      moves |-> {<<"h", "R">>},
      acts |-> {<<"h", "attack">>},
      rnds |-> {NoLuck},
      mods |-> {PowerPenalty("A")},
      times |-> {0, MOD_INTERVAL_MS} ]

NextRooms == NextArena(RoomsInputs) \/ Moves(RoomsInputs)

SpecRooms == Init /\ [][NextRooms]_vars

\* Base damage: attackers and defenders over the corners of the clamped atk and
\* def ranges, even and odd def, no shield, no modifier due.
StatsOf(hpMax, atk, def) ==
    [hpMax |-> Num(hpMax), atk |-> Num(atk), def |-> Num(def), heal |-> Num(10),
     power |-> Num(5000)]

DamageInputs ==
    [ ids |-> {"h", "a", "b"}, hosts |-> {"h"},
      codes |-> {"R1"}, passes |-> {"pw"},
      joins |-> {Join("a", "R1", "A", "TL", StatsOf(40, 20, 8)),
                 Join("a", "R1", "A", "TL", StatsOf(40, 1, 999)),
                 Join("b", "R1", "B", "TL", StatsOf(40, 20, 8)),
                 Join("b", "R1", "B", "TL", StatsOf(40, 1000000, 7))},
      acts |-> {<<"a", "attack">>, <<"b", "attack">>},
      rnds |-> {NoLuck},
      mods |-> {PowerPenalty("A")},
      times |-> {0, CD_ATTACK} ]

NextDamage == NextArena(DamageInputs)

SpecDamage == Init /\ [][NextDamage]_vars

\* Cells in both variants: players spawned on one cell, next to each other and in
\* opposite corners, moves in every direction, attacks from any distance.
MoveInputs ==
    [ ids |-> {"h", "a", "b"}, hosts |-> {"h"},
      codes |-> {"R1"}, passes |-> {"pw"},
      joins |-> {Join("a", "R1", "A", "TL", StatsFighter),
                 Join("b", "R1", "B", "TL", StatsRival),
                 Join("b", "R1", "B", "BR", StatsRival)},
      moves |-> {<<"b", "L">>, <<"b", "R">>, <<"b", "U">>, <<"b", "D">>},
      acts |-> {<<"b", "attack">>},
      rnds |-> {NoLuck},
      mods |-> {PowerPenalty("A")},
      times |-> {0, CD_ATTACK} ]

MoveGrid ==
    [ ids |-> {"h", "a", "b"}, hosts |-> {"h"},
      codes |-> {"R1"}, passes |-> {"pw"},
      joins |-> {Join4("a", "R1", "A", StatsTank),
                 Join4("b", "R1", "B", StatsTen)},
      cmds |-> {"start"},
      moves |-> {<<"a", "right">>, <<"a", "down">>, <<"b", "up">>, <<"b", "left">>,
                 <<"b", "right">>},
      acts |-> {<<"b", "attack">>},
      picks |-> {"defDownBoth"},
      times |-> {0, EVENT_INTERVAL_MS} ]

NextMoves == NextArena(MoveInputs) \/ Moves(MoveInputs) \/ NextGrid(MoveGrid)

SpecMoves == InitEither /\ [][NextMoves]_vars

\* Seats in both variants: a second identity asking for a held seat, before and
\* after its holder left.
SeatInputs ==
    [ ids |-> {"h", "a", "b"}, hosts |-> {"h"}, leavers |-> {"a"},
      codes |-> {"R1"}, passes |-> {"pw"},
      joins |-> {Join("a", "R1", "A", "TL", StatsFighter),
                 Join("b", "R1", "A", "TL", StatsRival),
                 Join("b", "R1", "B", "TL", StatsRival)},
      acts |-> {<<"b", "attack">>},
      rnds |-> {NoLuck},
      mods |-> {PowerPenalty("A")},
      times |-> {0, CD_ATTACK} ]

SeatGrid ==
    [ ids |-> {"h", "a", "b"}, hosts |-> {"h"}, leavers |-> {"a"},
      codes |-> {"R1"}, passes |-> {"pw"},
      joins |-> {Join4("a", "R1", "A", StatsTank),
                 Join4("b", "R1", "A", StatsTen),
                 Join4("b", "R1", "B", StatsTen)},
      cmds |-> {"start"},
      moves |-> {<<"b", "up">>},
      acts |-> {<<"b", "attack">>},
      picks |-> {"defDownBoth"},
      times |-> {0, EVENT_INTERVAL_MS} ]

NextSeats ==
    \/ NextArena(SeatInputs) \/ Leaves(SeatInputs)
    \/ NextGrid(SeatGrid) \/ Leaves4(SeatGrid)

SpecSeats == InitEither /\ [][NextSeats]_vars

\* Stats requests: missing, non-numeric, below and above every range, followed
\* by a match with attacks, heals, a power penalty and a restart.
StatsBelow ==
    [hpMax |-> Num(-1), atk |-> Num(0), def |-> Num(-1), heal |-> Num(-1), power |-> Num(-1)]
StatsAbove ==
    [hpMax |-> Num(10000), atk |-> Num(1000), def |-> Num(1000), heal |-> Num(1000),
     power |-> Num(1000000000)]
StatsWords == [hpMax |-> NaN, atk |-> NaN, def |-> NaN, heal |-> NaN, power |-> NaN]

StatsInputs ==
    [ ids |-> {"h", "a", "b"}, hosts |-> {"h"},
      codes |-> {"R1"}, passes |-> {"pw"},
      joins |-> {Join("a", "R1", "A", "TL", StatsNone),
                 Join("a", "R1", "A", "TL", StatsAbove),
                 Join("b", "R1", "B", "TL", StatsBelow),
                 Join("b", "R1", "B", "TL", StatsWords)},
      acts |-> {<<"a", "attack">>, <<"b", "heal">>},
      rnds |-> {NoLuck},
      mods |-> {PowerPenalty("A")},
      times |-> {0, MOD_INTERVAL_MS} ]

NextStats == NextArena(StatsInputs)

SpecStats == Init /\ [][NextStats]_vars

\* Modifiers: every timed kind on one seat, minute after minute, with attacks
\* that read the cooldown multiplier.
ModInputs ==
    [ ids |-> {"h", "a", "b"}, hosts |-> {"h"},
      codes |-> {"R1"}, passes |-> {"pw"},
      joins |-> {Join("a", "R1", "A", "TL", StatsFighter),
                 Join("b", "R1", "B", "TL", StatsTwin)},
      acts |-> {<<"a", "attack">>},
      rnds |-> {NoLuck},
      mods |-> {PowerPenalty("A"), CooldownSlow("A"),
                NoDamage("A"), CooldownFast("A"), HalfDamage("A")},
      times |-> MinuteMarks ]

NextMods == NextArena(ModInputs)

SpecMods == Init /\ [][NextMods]_vars

\* Stink clouds: the malus on seat B, attacks that end the match before the
\* clear is due, restarts and re-joins.
StinkInputs ==
    [ ids |-> {"h", "a", "b"}, hosts |-> {"h"},
      codes |-> {"R1"}, passes |-> {"pw"},
      joins |-> {Join("a", "R1", "A", "TL", StatsFighter),
                 Join("b", "R1", "B", "TL", StatsRival)},
      acts |-> {<<"a", "attack">>},
      rnds |-> {NoLuck},
      mods |-> {Stink("B")},
      times |-> {0, MOD_INTERVAL_MS, 2 * MOD_INTERVAL_MS} ]

NextStink == NextArena(StinkInputs) \/ StinkClears

SpecStink == Init /\ [][NextStink]_vars

\* A match from start to its end time: moves, attacks, re-joins, a leaving
\* player and modifiers in between. The 250 ms tick keeps firing and the clock
\* keeps advancing; matches start while the end time is still on the clock.
LiveInputs ==
    [ ids |-> {"h", "a", "b"}, hosts |-> {"h"}, leavers |-> {"b"},
      codes |-> {"R1"}, passes |-> {"pw"},
      joins |-> {Join("a", "R1", "A", "TL", StatsFighter),
                 Join("b", "R1", "B", "TL", StatsRival)},
      moves |-> {<<"b", "R">>, <<"b", "L">>},
      acts |-> {<<"a", "attack">>},
      rnds |-> {NoLuck},
      mods |-> {PowerPenalty("A")},
      times |-> {0, MOD_INTERVAL_MS, MATCH_DURATION_MS} ]

EndOnClock == \E t \in LiveInputs.times : now + MATCH_DURATION_MS = t

LiveTick == \E draws \in DrawsOver(LiveInputs.mods) : Tick(draws)

LiveClock == \E t \in LiveInputs.times : Advance(t)

NextLive ==
    \/ \E c \in LiveInputs.ids : Connect(c)
    \/ \E c \in LiveInputs.hosts, code \in LiveInputs.codes, pass \in LiveInputs.passes :
          HostCreate(c, code, pass)
    \/ \E j \in LiveInputs.joins, pass \in LiveInputs.passes :
          JoinSeat(j.c, j.code, pass, j.seat, j.corner, j.stats)
    \/ \E c \in LiveInputs.hosts, code \in LiveInputs.codes, pass \in LiveInputs.passes :
          EndOnClock /\ StartMatch(c, code, pass)
    \/ \E a \in LiveInputs.acts, code \in LiveInputs.codes, rnd \in LiveInputs.rnds :
          Action(a[1], code, a[2], rnd)
    \/ LiveTick
    \/ LiveClock
    \/ Moves(LiveInputs)
    \/ Leaves(LiveInputs)

SpecLive == Init /\ [][NextLive]_vars /\ WF_vars(LiveTick) /\ WF_vars(LiveClock)

\* The scheduler: ticks every half interval over a match that a death may end,
\* with a timed malus and the stink malus.
HalfMarks == {0, MOD_INTERVAL_MS, MOD_INTERVAL_MS + MOD_INTERVAL_MS \div 2,
              2 * MOD_INTERVAL_MS}

SchedInputs ==
    [ ids |-> {"h", "a", "b"}, hosts |-> {"h"},
      codes |-> {"R1"}, passes |-> {"pw"},
      joins |-> {Join("a", "R1", "A", "TL", StatsFighter),
                 Join("b", "R1", "B", "TL", StatsRival)},
      acts |-> {<<"a", "attack">>},
      rnds |-> {NoLuck},
      mods |-> {PowerPenalty("A"), Stink("B")},
      times |-> HalfMarks ]

NextSched == NextArena(SchedInputs) \/ StinkClears

SpecSched == Init /\ [][NextSched]_vars

\* Teleports: attacks on a defender holding the half-damage bonus, every draw of
\* the teleport chance and of its two jumps, from the cells around a corner.
TeleportInputs ==
    [ ids |-> {"h", "a", "b"}, hosts |-> {"h"},
      codes |-> {"R1"}, passes |-> {"pw"},
      joins |-> {Join("a", "R1", "A", "TL", StatsWeak),
                 Join("b", "R1", "B", "TL", StatsFighter)},
      moves |-> {<<"b", "R">>, <<"b", "D">>},
      acts |-> {<<"a", "attack">>},
      rnds |-> {rnd \in AttackDraws : ~rnd.nodmg},
      mods |-> {HalfDamage("B")},
      times |-> {0, MOD_INTERVAL_MS} ]

NextTeleport == NextArena(TeleportInputs) \/ Moves(TeleportInputs)

SpecTeleport == Init /\ [][NextTeleport]_vars

\* The event log: pushLog calls on the logs of two rooms, past the capacity.
NextLog == \E code \in Codes : PushLog(code)

SpecLog == Init /\ [][NextLog]_vars

-----------------------------------------------------------------------------
(* Claims *)

\* C1: in every reachable state of a room, in both variants, every seated player
\* has 0 <= hp <= hpMax.
C1_HpInRange ==
    /\ \A code \in Codes : \A s \in Seats :
         (rooms[code] # NoRoom /\ rooms[code].players[s] # NoPlayer)
           => ( /\ 0 <= rooms[code].players[s].hp
                /\ rooms[code].players[s].hp <= rooms[code].players[s].hpMax )
    /\ \A code \in Codes : \A s \in Seats :
         (rooms4[code] # NoRoom /\ rooms4[code].players[s] # NoPlayer)
           => ( /\ 0 <= rooms4[code].players[s].hp
                /\ rooms4[code].players[s].hp <= rooms4[code].players[s].hpMax )

\* C1 witness: a player who joined with an out-of-range hpMax request (5, raised
\* to 10) was hit and then healed by more than the missing hp: hp stops at hpMax.
C1_Witness ==
    /\ variant = "arena"
    /\ last.op = "action" /\ last.arg = "heal" /\ last.res = "ok"
    /\ LET p == rooms[last.code].players["A"] IN
       /\ p.hpMax = 10 /\ p.hp = 10 /\ p.heal = 999
       /\ p.healLeft <= MAX_USES - 2

Running(code) == rooms[code] # NoRoom /\ rooms[code].started

\* C2: a move or action event that arrives while the room's match is not running
\* (started = false: idle, or ended by a death or a timeout) changes no field of
\* any room and no cooldown timestamp.
C2_NotRunningNoEffect ==
    [][ (last'.op \in {"move", "action"} /\ ~Running(last'.code))
          => UNCHANGED <<rooms, sock, timeouts>> ]_vars

\* C2 witness: an attack attempt was dropped in a room whose match has ended.
C2_Witness ==
    /\ last.op = "action"
    /\ last.res = "not running"
    /\ rooms[last.code] # NoRoom
    /\ rooms[last.code].winner # NULL

\* C3: a move or action event changes a room only when the caller is the
\* identity bound (R.sockets[S]) to the seat S it acts with in the room R it names.
C3_OnlySeatHolderActs ==
    [][ (last'.op \in {"move", "action"} /\ rooms' # rooms)
          => rooms[last'.code].sockets[sock[last'.c].seat] = last'.c ]_vars

\* C4: in every reachable state, started implies both seats are occupied.
C4_StartedImpliesSeated ==
    \A code \in Codes :
        Running(code) =>
            \A s \in Seats : rooms[code].players[s] # NoPlayer

\* C5: an attack that takes the defender's hp to 0 makes, in the same step, the
\* defender the loser and the attacker the winner and clears started; while
\* started is false no tick changes winner or loser, and only startMatch sets
\* started again.
C5_DeathEndsMatch ==
    [][ \A code \in Codes :
          LET r == rooms[code]
              r1 == rooms'[code]
          IN /\ ( /\ last'.op = "action" /\ last'.arg = "attack" /\ last'.res = "ok"
                  /\ last'.code = code
                  /\ r1.players[OtherSeat(sock[last'.c].seat)].hp = 0 )
                => ( /\ r1.loser = OtherSeat(sock[last'.c].seat)
                     /\ r1.winner = sock[last'.c].seat
                     /\ ~r1.started )
             /\ (last'.op = "tick" /\ r # NoRoom /\ ~r.started)
                => (r1.winner = r.winner /\ r1.loser = r.loser /\ ~r1.started)
             /\ (r # NoRoom /\ ~r.started /\ r1.started) => last'.op = "startMatch"
      ]_vars

\* C5 witness: a tick has run at or after matchEndsAt in a room whose match was
\* ended by a death.
C5_Witness ==
    /\ last.op = "tick"
    /\ \E code \in Codes :
         /\ rooms[code] # NoRoom
         /\ ~rooms[code].started
         /\ now >= rooms[code].endsAt
         /\ rooms[code].loser # NULL
         /\ rooms[code].players[rooms[code].loser] # NoPlayer
         /\ rooms[code].players[rooms[code].loser].hp = 0

\* The effective power the timeout rule names.
RulePower(p, t) == IF p.powerPenaltyUntil > t THEN Max(0, p.power - 5000) ELSE p.power

\* The winner the timeout rule names.
RuleWinner(A, B, t) ==
    IF A.hp > B.hp THEN "A"
    ELSE IF B.hp > A.hp THEN "B"
    ELSE IF RulePower(A, t) > RulePower(B, t) THEN "A"
    ELSE IF RulePower(B, t) > RulePower(A, t) THEN "B"
    ELSE "A"

\* C6: when a running match with both seats occupied times out (a tick with
\* now >= endsAt), the winner is the seat with strictly higher hp, else the seat
\* with strictly higher effective power, else seat A; the loser is the other seat.
C6_TimeoutWinner ==
    [][ \A code \in Codes :
          LET r == rooms[code]
              r1 == rooms'[code]
          IN ( /\ last'.op = "tick" /\ Running(code) /\ now >= r.endsAt
               /\ r.players["A"] # NoPlayer /\ r.players["B"] # NoPlayer )
             => LET A == r1.players["A"]
                    B == r1.players["B"]
                IN /\ ~r1.started
                   /\ r1.winner = RuleWinner(A, B, now)
                   /\ r1.loser = OtherSeat(r1.winner)
                   /\ (A.hp = 40 /\ B.hp = 30) => r1.winner = "A"
                   /\ ( /\ A.hp = B.hp /\ A.power = 5000 /\ B.power = 6000
                        /\ A.powerPenaltyUntil <= now /\ B.powerPenaltyUntil <= now )
                      => r1.winner = "B"
      ]_vars

\* C6 witness: a timeout decided on power: equal hp, A power 5000, B power 6000.
C6_Witness ==
    /\ last.op = "tick"
    /\ \E code \in Codes :
         /\ rooms[code] # NoRoom
         /\ ~rooms[code].started /\ now >= rooms[code].endsAt
         /\ rooms[code].players["A"] # NoPlayer /\ rooms[code].players["B"] # NoPlayer
         /\ rooms[code].players["A"].hp = rooms[code].players["B"].hp
         /\ rooms[code].players["A"].power = 5000
         /\ rooms[code].players["B"].power = 6000
         /\ rooms[code].winner = "B"

\* C7: right after a successful startMatch both players are at full hp, at their
\* spawn cell, with shield 0, full use counters, no status timer and no stink
\* flag; every cooldown timestamp of both seat-holders is cleared; started is
\* true, endsAt = now + duration, nextModAt = now + interval, winner = loser = null.
C7_StartResetsAll ==
    [][ (last'.op = "startMatch" /\ last'.res = "ok") =>
          LET r1 == rooms'[last'.code] IN
          /\ r1.started /\ r1.winner = NULL /\ r1.loser = NULL
          /\ r1.endsAt = now + MATCH_DURATION_MS
          /\ r1.nextModAt = now + MOD_INTERVAL_MS
          /\ \A s \in Seats :
               LET p == r1.players[s] IN
               /\ p.hp = p.hpMax /\ p.shield = 0 /\ ~p.stink
               /\ p.x = cornerToSpawn(p.corner).x /\ p.y = cornerToSpawn(p.corner).y
               /\ p.healLeft = 6 /\ p.defendLeft = 6
               /\ p.noDamageUntil = 0 /\ p.halfDamageUntil = 0
               /\ p.skillSpeedMultUntil = 0 /\ p.powerPenaltyUntil = 0
               /\ p.cooldownMultUntil = 0
               /\ \A k \in Kinds : sock'[r1.sockets[s]].cooldowns[k] = 0
      ]_vars

\* C8: after a successful action of kind k at time t with multiplier m, every
\* attempt of kind k by the same identity before t + base_k * m is rejected and
\* changes no player and no cooldown timestamp.
C8_CooldownHolds ==
    [][ (last'.op = "action" /\ now < cdDue[last'.c][last'.arg])
          => UNCHANGED <<rooms, sock>> ]_vars

\* The fields of a player the uses claim names (arena).
UseFields(p) == <<p.hp, p.shield, p.healLeft, p.defendLeft>>

\* The fields of a player the uses claim names (grid variant).
UseFields4(p) == <<p.hp, p.shield, p.usedHeal, p.usedDefend>>

\* C9: a heal attempt by a player with no heal uses left, and a defend attempt by
\* a player with no defend uses left, leaves that player's hp, shield, use
\* counters and every cooldown timestamp unchanged, in both variants.
C9_NoUsesNoEffect ==
    [][ /\ ( /\ variant = "arena" /\ last'.op = "action"
             /\ rooms[last'.code] # NoRoom
             /\ sock[last'.c].seat # NULL
             /\ rooms[last'.code].players[sock[last'.c].seat] # NoPlayer
             /\ \/ ( /\ last'.arg = "heal"
                     /\ rooms[last'.code].players[sock[last'.c].seat].healLeft <= 0 )
                \/ ( /\ last'.arg = "defend"
                     /\ rooms[last'.code].players[sock[last'.c].seat].defendLeft <= 0 ) )
           => ( /\ UseFields(rooms'[last'.code].players[sock[last'.c].seat])
                     = UseFields(rooms[last'.code].players[sock[last'.c].seat])
                /\ sock'[last'.c].cooldowns = sock[last'.c].cooldowns )
        /\ ( /\ variant = "grid4" /\ last'.op = "action"
             /\ socketRoleInRoom(last'.c, rooms4[last'.code]).role = "player"
             /\ LET p == rooms4[last'.code].players[
                             socketRoleInRoom(last'.c, rooms4[last'.code]).seat]
                IN \/ (last'.arg = "heal" /\ p.usedHeal >= MAX_HEAL)
                   \/ (last'.arg = "defend" /\ p.usedDefend >= MAX_DEFEND) )
           => LET seat == socketRoleInRoom(last'.c, rooms4[last'.code]).seat IN
              UseFields4(rooms4'[last'.code].players[seat])
                = UseFields4(rooms4[last'.code].players[seat])
      ]_vars

\* C9 witness: a seventh heal attempt, outside every cooldown, was refused for
\* a player below full hp.
C9_Witness ==
    /\ variant = "arena"
    /\ last.op = "action" /\ last.arg = "heal" /\ last.res = "no uses"
    /\ now >= sock[last.c].cooldowns["heal"]
    /\ LET p == rooms[last.code].players[sock[last.c].seat] IN
       p.healLeft = 0 /\ p.hp < p.hpMax

\* Every shield is at least 0.
ShieldNonNegative ==
    \A code \in Codes : \A s \in Seats :
        (rooms[code] # NoRoom /\ rooms[code].players[s] # NoPlayer)
          => rooms[code].players[s].shield >= 0

\* C10: an attack with raw damage D on a defender with shield S > 0 blocks
\* min(D, S), leaves shield S - blocked and deals D - blocked (S = 10, D = 16:
\* 6 dealt, shield 0); and shield >= 0 in every reachable state.
C10_ShieldAbsorbs ==
    /\ []ShieldNonNegative
    /\ [][ ( /\ last'.op = "action" /\ last'.arg = "attack" /\ last'.res = "ok"
             /\ rooms[last'.code].players[OtherSeat(sock[last'.c].seat)].shield > 0 )
           => LET a == rooms[last'.code].players[sock[last'.c].seat]
                  d == rooms[last'.code].players[OtherSeat(sock[last'.c].seat)]
                  d1 == rooms'[last'.code].players[OtherSeat(sock[last'.c].seat)]
                  D == Max(1, RoundHalf(2 * a.atk - d.def))
                  S == d.shield
                  blocked == IF D <= S THEN D ELSE S
                  plain == a.noDamageUntil <= now /\ d.halfDamageUntil <= now
              IN /\ blocked <= S /\ blocked <= D
                 /\ d1.shield = S - blocked
                 /\ plain => d1.hp = Max(0, d.hp - (D - blocked))
                 /\ (plain /\ S = 10 /\ D = 16 /\ d.hp >= 6)
                      => (d.hp - d1.hp = 6 /\ d1.shield = 0)
         ]_vars

\* C10 witness: shield 10 took a hit of raw damage 16: 6 dealt, shield 0.
C10_Witness ==
    /\ last.op = "action" /\ last.arg = "attack" /\ last.res = "ok"
    /\ LET d == rooms[last.code].players["B"] IN
       d.defendLeft = MAX_USES - 1 /\ d.shield = 0 /\ d.hp = d.hpMax - 6

\* round(n / 2), halves up: the integer k with k - 1/2 <= n/2 < k + 1/2.
RuleRoundHalf(n) ==
    CHOOSE k \in (n \div 2 - 1)..(n \div 2 + 1) : 2 * k - 1 <= n /\ n < 2 * k + 1

\* No status timer of the player is running.
NoStatus(p) ==
    /\ p.noDamageUntil <= now /\ p.halfDamageUntil <= now
    /\ p.skillSpeedMultUntil <= now /\ p.powerPenaltyUntil <= now
    /\ p.cooldownMultUntil <= now /\ ~p.stink

\* C11: an in-range attack on a defender with shield 0, no status effect on either
\* player, lowers the defender's hp by exactly min(hp, max(1, round(atk - def/2)));
\* atk = 20, def = 8 gives 16.
C11_BaseDamage ==
    [][ ( /\ last'.op = "action" /\ last'.arg = "attack" /\ last'.res = "ok"
          /\ rooms[last'.code].players[OtherSeat(sock[last'.c].seat)].shield = 0
          /\ NoStatus(rooms[last'.code].players["A"])
          /\ NoStatus(rooms[last'.code].players["B"]) )
        => LET a == rooms[last'.code].players[sock[last'.c].seat]
               d == rooms[last'.code].players[OtherSeat(sock[last'.c].seat)]
               d1 == rooms'[last'.code].players[OtherSeat(sock[last'.c].seat)]
               dmg == Max(1, RuleRoundHalf(2 * a.atk - d.def))
           IN /\ d.hp - d1.hp = Min(d.hp, dmg)
              /\ (a.atk = 20 /\ d.def = 8) => dmg = 16
      ]_vars

\* C11 witness: atk 20 against def 8 at full hp 40: 16 dealt.
C11_Witness ==
    /\ last.op = "action" /\ last.arg = "attack" /\ last.res = "ok"
    /\ LET a == rooms[last.code].players[sock[last.c].seat]
           d == rooms[last.code].players[OtherSeat(sock[last.c].seat)]
       IN a.atk = 20 /\ d.def = 8 /\ d.shield = 0 /\ d.hpMax = 40 /\ d.hp = 24

\* The cell one step from (x, y) in the named direction.
RuleCell(x, y, dir) ==
    CASE dir \in {"L", "left"} -> [x |-> x - 1, y |-> y]
      [] dir \in {"R", "right"} -> [x |-> x + 1, y |-> y]
      [] dir \in {"U", "up"} -> [x |-> x, y |-> y - 1]
      [] dir \in {"D", "down"} -> [x |-> x, y |-> y + 1]

\* The move of src/server.js that passed the handler's gate.
C12_Arena ==
    (last'.op = "move" /\ variant = "arena" /\ last'.res \in {"ok", "blocked"})
    => LET seat == sock[last'.c].seat
           r == rooms[last'.code]
           p == r.players[seat]
           o == r.players[OtherSeat(seat)]
           cell == RuleCell(p.x, p.y, last'.arg)
           invalid == \/ cell.x \notin 0..(W - 1) \/ cell.y \notin 0..(H - 1)
                      \/ (o # NoPlayer /\ o.x = cell.x /\ o.y = cell.y)
       IN p # NoPlayer =>
          IF invalid THEN rooms' = rooms /\ sock' = sock
          ELSE /\ rooms' = [rooms EXCEPT ![last'.code].players[seat].x = cell.x,
                                         ![last'.code].players[seat].y = cell.y]
               /\ sock' = sock

\* The move of src/unnamed/part_000 that passed the handler's gate.
C12_Grid ==
    (last'.op = "move" /\ variant = "grid4"
        /\ last'.res \in {"ok", "off grid", "Tile occupied."})
    => LET r == rooms4[last'.code]
           seat == CHOOSE s \in Seats :
                      r.players[s] # NoPlayer /\ r.players[s].socketId = last'.c
           p == r.players[seat]
           o == r.players[OtherSeat(seat)]
           cell == RuleCell(p.pos.x, p.pos.y, last'.arg)
           invalid == \/ cell.x \notin 0..(GRID_W - 1) \/ cell.y \notin 0..(GRID_H - 1)
                      \/ (o # NoPlayer /\ o.pos = cell)
       IN IF invalid THEN rooms4' = rooms4 /\ sock4' = sock4
          ELSE /\ rooms4' = [rooms4 EXCEPT ![last'.code].players[seat].pos = cell]
               /\ sock4' = sock4

\* C12: a move onto a cell outside the grid or onto the other seat's cell changes
\* nothing about either player; a valid move changes the mover's position by
\* exactly one cell in the requested direction and nothing else (both variants).
C12_MoveAllOrNothing == [][C12_Arena /\ C12_Grid]_vars

\* C12 witness: a move stopped by the other seat's cell, the players on different
\* cells.
C12_Witness ==
    /\ variant = "arena" /\ last.op = "move" /\ last.res = "blocked"
    /\ LET seat == sock[last.c].seat
           p == rooms[last.code].players[seat]
           o == rooms[last.code].players[OtherSeat(seat)]
       IN /\ o # NoPlayer
          /\ RuleCell(p.x, p.y, last.arg) = [x |-> o.x, y |-> o.y]

\* The outcomes of socket.on("action") that reject the request.
RejectedAction == {"cooldown", "no uses", "too far", "not running"}

\* C13: a rejected action (on cooldown, out of heal/defend uses, attack out of
\* range, match not running) changes no field of the room, appends no entry to
\* the room's log and broadcasts neither a log line nor the state to the room.
C13_RejectionIsLocal ==
    [][ (last'.op = "action" /\ last'.res \in RejectedAction)
        => /\ rooms' = rooms
           /\ out'[last'.code].logs = 0
           /\ ~out'[last'.code].emits
      ]_vars

\* C19: an attack rejected because the target is farther than distance 1, or the
\* other seat is empty, leaves the attacker's cooldowns unchanged.
C19_RejectedAttackKeepsCooldown ==
    [][ (last'.op = "action" /\ last'.arg = "attack"
            /\ last'.res \in {"too far", "no opponent"})
        => sock'[last'.c].cooldowns = sock[last'.c].cooldowns
      ]_vars

\* C14: whatever stats a joinSeat request carries, the player's hpMax, atk, def,
\* heal and power lie in [10,9999], [1,999], [0,999], [0,999], [0,999999999], at
\* creation and after every later operation.
C14_StatsInRange ==
    \A code \in Codes, seat \in Seats :
        (variant = "arena" /\ rooms[code] # NoRoom /\ rooms[code].players[seat] # NoPlayer)
        => LET p == rooms[code].players[seat] IN
           /\ p.hpMax \in 10..9999
           /\ p.atk \in 1..999
           /\ p.def \in 0..999
           /\ p.heal \in 0..999
           /\ p.power \in 0..999999999

\* C14 witness: a player built from a request above every range has attacked a
\* player built from a request below every range.
C14_Witness ==
    /\ variant = "arena" /\ last.op = "action" /\ last.arg = "attack" /\ last.res = "ok"
    /\ rooms[last.code].players["A"].atk = 999
    /\ rooms[last.code].players["A"].power = 999999999
    /\ rooms[last.code].players["B"].hpMax = 10
    /\ rooms[last.code].players["B"].atk = 1
    /\ rooms[last.code].players["B"].hp = 0

\* The status timers of a player.
Timers(p) ==
    {p.noDamageUntil, p.halfDamageUntil, p.skillSpeedMultUntil, p.powerPenaltyUntil,
     p.cooldownMultUntil}

\* C15: a modifier application stores now + interval over the timer's previous
\* value; every status timer of every player ends at most one interval after
\* now, also after the same kind hit the same player on consecutive intervals.
C15_ExpiryWithinInterval ==
    \A code \in Codes, seat \in Seats :
        (variant = "arena" /\ rooms[code] # NoRoom /\ rooms[code].players[seat] # NoPlayer)
        => \A u \in Timers(rooms[code].players[seat]) : u - now <= MOD_INTERVAL_MS

\* C15 witness: the slow-cooldown malus was live on A at 60000 (an attack then was
\* charged 1.5 cooldowns) and was applied again at 120000: it ends at 180000.
C15_Witness ==
    /\ variant = "arena" /\ now = 2 * MOD_INTERVAL_MS /\ last.op = "tick"
    /\ rooms["R1"] # NoRoom /\ rooms["R1"].started
    /\ rooms["R1"].players["A"].cooldownMultUntil = 3 * MOD_INTERVAL_MS
    /\ sock["a"].cooldowns.attack = MOD_INTERVAL_MS + (3 * CD_ATTACK) \div 2

\* C16: a stink-clear callback that fires when it is due changes the room only in
\* the match it was scheduled in: the room is running, with the same end time,
\* and the seat holds the player it was scheduled for.
C16_StaleClearIsNoOp ==
    [][ (last'.op = "stinkClear" /\ rooms' # rooms)
        => \A tm \in timeouts \ timeouts' :
              now = tm.at =>
                 /\ rooms[tm.code].started
                 /\ rooms[tm.code].endsAt = tm.endsAt
                 /\ rooms[tm.code].players[tm.seat].id = tm.id
      ]_vars

\* The identity a seat is bound to, NULL when none.
Binding(code, seat) ==
    IF variant = "arena"
    THEN IF rooms[code] = NoRoom THEN NULL ELSE rooms[code].sockets[seat]
    ELSE IF rooms4[code] = NoRoom \/ rooms4[code].players[seat] = NoPlayer THEN NULL
         ELSE rooms4[code].players[seat].socketId

RuleConnected(c) == IF variant = "arena" THEN sock[c].conn = "open" ELSE sock4[c].conn = "open"

\* C18: a joinSeat request for a seat bound to a different connected identity is
\* rejected and leaves the room unchanged; a seat's binding never passes from
\* one identity directly to another (both variants).
C18_TakenSeatRejected ==
    [][ /\ ( /\ last'.op = "joinSeat" /\ last'.arg \in Seats
             /\ Binding(last'.code, last'.arg) \notin {NULL, last'.c}
             /\ RuleConnected(Binding(last'.code, last'.arg)) )
           => /\ last'.res # "ok"
              /\ rooms' = rooms /\ rooms4' = rooms4
        /\ \A code \in Codes, seat \in Seats :
              Binding(code, seat) # NULL
              => Binding(code, seat)' \in {NULL, Binding(code, seat)}
      ]_vars

\* C18 witness: b asked for seat A of a running match while a held it.
C18_Witness ==
    /\ variant = "arena" /\ last.op = "joinSeat" /\ last.c = "b" /\ last.arg = "A"
    /\ last.res = "Seat is taken."
    /\ rooms[last.code].sockets["A"] = "a" /\ sock["a"].conn = "open"
    /\ rooms[last.code].started

\* C20: with the tick firing and the clock advancing, every started match leaves
\* Running, at the latest in the first tick with now >= endsAt, whatever moves,
\* actions, joins and disconnects happen in between.
C20_MatchEnds ==
    /\ [][ \A code \in Codes :
             (last'.op = "tick" /\ Running(code) /\ now >= rooms[code].endsAt)
             => ~Running(code)' ]_vars
    /\ \A code \in Codes : Running(code) ~> ~Running(code)

\* C20 witness: the tick ended a match at its end time after a player had left:
\* not running, no winner named.
C20_Witness ==
    /\ variant = "arena" /\ last.op = "tick"
    /\ rooms["R1"] # NoRoom /\ ~rooms["R1"].started
    /\ rooms["R1"].endsAt # 0 /\ now >= rooms["R1"].endsAt
    /\ rooms["R1"].winner = NULL /\ rooms["R1"].players["B"] = NoPlayer

\* The status timers and the stink flag of a seat, zero and FALSE when empty.
StatusOf(r, seat) ==
    IF r = NoRoom \/ r.players[seat] = NoPlayer
    THEN [timers |-> <<0, 0, 0, 0, 0>>, stink |-> FALSE]
    ELSE LET p == r.players[seat] IN
         [timers |-> <<p.noDamageUntil, p.halfDamageUntil, p.skillSpeedMultUntil,
                       p.powerPenaltyUntil, p.cooldownMultUntil>>,
          stink |-> p.stink]

\* The step sets a status expiry or raises the stink flag on the seat.
RuleApplied(code, seat) ==
    \/ \E i \in 1..5 :
          /\ StatusOf(rooms[code], seat)'.timers[i] # StatusOf(rooms[code], seat).timers[i]
          /\ StatusOf(rooms[code], seat)'.timers[i] # 0
    \/ ~StatusOf(rooms[code], seat).stink /\ StatusOf(rooms[code], seat)'.stink

\* C21: a status expiry is set, or a stink flag raised, only by the tick on a
\* running match, at least one interval after startMatch and after the previous
\* application of the same match (whose timer or pending clear has run out).
C21_OncePerInterval ==
    [][ \A code \in Codes, seat \in Seats :
          RuleApplied(code, seat)
          => /\ last'.op = "tick"
             /\ Running(code)
             /\ now >= rooms[code].endsAt - MATCH_DURATION_MS + MOD_INTERVAL_MS
             /\ \A s \in Seats, i \in 1..5 : StatusOf(rooms[code], s).timers[i] <= now
             /\ \A tm \in timeouts :
                   (tm.code = code /\ tm.endsAt = rooms[code].endsAt) => tm.at <= now
      ]_vars

\* C21 witness: the stink malus applied at one interval (its clear is pending for
\* two intervals), the power penalty applied by the tick at two intervals.
C21_Witness ==
    /\ variant = "arena" /\ last.op = "tick" /\ now = 2 * MOD_INTERVAL_MS
    /\ rooms["R1"] # NoRoom /\ rooms["R1"].started
    /\ rooms["R1"].players["A"].powerPenaltyUntil = 3 * MOD_INTERVAL_MS
    /\ rooms["R1"].players["B"].stink
    /\ \E tm \in timeouts : tm.at = 2 * MOD_INTERVAL_MS /\ tm.endsAt = rooms["R1"].endsAt

\* The attack step pushed the "TELEPORTS away!" line: with no shield and no
\* no-damage bonus the hit logs one line, a teleport one more, a death two more.
TeleportLogged(code, dSeat) ==
    out'[code].logs = 2 + (IF rooms'[code].players[dSeat].hp = 0 THEN 2 ELSE 0)

\* C22: when the half-damage teleport triggers on a hit from a neighbouring cell,
\* the defender ends on a cell of the grid that is neither the attacker's cell
\* nor within attack range of it.
C22_TeleportsAway ==
    [][ \A code \in Codes, aSeat \in Seats :
          LET dSeat == OtherSeat(aSeat) IN
          ( /\ last'.op = "action" /\ last'.arg = "attack" /\ last'.res = "ok"
            /\ last'.code = code /\ sock[last'.c].seat = aSeat
            /\ rooms[code].players[dSeat].shield = 0
            /\ rooms[code].players[aSeat].noDamageUntil <= now
            /\ rooms[code].players[dSeat].halfDamageUntil > now
            /\ dist(rooms[code].players[aSeat], rooms[code].players[dSeat]) = 1
            /\ TeleportLogged(code, dSeat) )
          => LET a1 == rooms'[code].players[aSeat]
                 d1 == rooms'[code].players[dSeat]
             IN /\ d1.x \in 0..(W - 1) /\ d1.y \in 0..(H - 1)
                /\ Abs(a1.x - d1.x) + Abs(a1.y - d1.y) > 1
      ]_vars

\* The shield a defend adds: def + 10 kept within 5..200.
RuleDefendGain(def) == IF def + 10 < 5 THEN 5 ELSE IF def + 10 > 200 THEN 200 ELSE def + 10

\* The step is a successful action of the given kind by the holder of the seat.
RuleActs(code, seat, kind) ==
    /\ last'.op = "action" /\ last'.arg = kind /\ last'.res = "ok"
    /\ last'.code = code /\ sock[last'.c].seat = seat

\* C23: a successful defend adds exactly clamp(def + 10, 5, 200) to the shield the
\* player holds; the shield of a seated player changes only by its own
\* successful defend, by an incoming hit and by startMatch.
C23_ShieldChanges ==
    [][ \A code \in Codes, seat \in Seats :
          (/\ rooms[code] # NoRoom /\ rooms[code].players[seat] # NoPlayer
           /\ rooms'[code] # NoRoom /\ rooms'[code].players[seat] # NoPlayer)
          => LET p == rooms[code].players[seat]
                 p1 == rooms'[code].players[seat]
             IN /\ RuleActs(code, seat, "defend")
                     => p1.shield = p.shield + RuleDefendGain(p.def)
                /\ p1.shield # p.shield
                     => \/ RuleActs(code, seat, "defend")
                        \/ RuleActs(code, OtherSeat(seat), "attack")
                        \/ last'.op = "startMatch"
      ]_vars

\* C24: a room's log never holds more than 120 entries; it holds the latest
\* min(n, 120) of the n lines pushed, in arrival order (a push on a full log
\* evicts the oldest), and the state projection carries the latest min(n, 30).
C24_LogBounded ==
    \A code \in Codes :
        LET n == log[code].pushed
            k == Len(log[code].entries)
            shown == roomPublicLog(log[code].entries)
        IN /\ k <= 120
           /\ k = (IF n < 120 THEN n ELSE 120)
           /\ \A i \in 1..k : log[code].entries[i] = n - k + i
           /\ Len(shown) = (IF n < 30 THEN n ELSE 30)
           /\ \A i \in 1..Len(shown) : shown[i] = n - Len(shown) + i

\* C24 witness: line 121 was pushed on a full log: 120 entries, line 1 gone.
C24_Witness ==
    /\ last.op = "pushLog" /\ log["R1"].pushed = 121
    /\ Len(log["R1"].entries) = 120
    /\ log["R1"].entries[1] = 2 /\ log["R1"].entries[120] = 121

\* What a match has made of a seated player: hp, shield, cell, uses left, status.
MatchState(p) ==
    <<p.hp, p.shield, p.x, p.y, p.healLeft, p.defendLeft, p.stink, p.noDamageUntil,
      p.halfDamageUntil, p.skillSpeedMultUntil, p.powerPenaltyUntil, p.cooldownMultUntil>>

\* C25: while a match is running, a joinSeat event changes neither the match
\* state of a player already seated nor any cooldown timestamp.
C25_JoinKeepsMatchState ==
    [][ \A code \in Codes :
          (last'.op = "joinSeat" /\ Running(code))
          => /\ \A seat \in Seats :
                  rooms[code].players[seat] # NoPlayer
                  => /\ rooms'[code].players[seat] # NoPlayer
                     /\ MatchState(rooms'[code].players[seat])
                          = MatchState(rooms[code].players[seat])
             /\ \A c \in Ids : sock'[c].cooldowns = sock[c].cooldowns
      ]_vars

\* C26: while a match is running the two players stand on different cells.
C26_DistinctCells ==
    \A code \in Codes :
        ( /\ variant = "arena" /\ Running(code)
          /\ rooms[code].players["A"] # NoPlayer /\ rooms[code].players["B"] # NoPlayer )
        => \/ rooms[code].players["A"].x # rooms[code].players["B"].x
           \/ rooms[code].players["A"].y # rooms[code].players["B"].y

\* C27: in a running match, a stink-clear callback does not lower the flag of a
\* seated player while a later stink application of the same match on that
\* player has not run its interval (its own clear is still pending and not due).
C27_LaterStinkOutlivesClear ==
    [][ \A code \in Codes, seat \in Seats :
          ( /\ last'.op = "stinkClear" /\ Running(code)
            /\ rooms[code].players[seat] # NoPlayer
            /\ rooms[code].players[seat].stink
            /\ ~rooms'[code].players[seat].stink )
          => ~\E tm \in timeouts' :
                /\ tm.code = code /\ tm.seat = seat /\ tm.at > now
                /\ tm.endsAt = rooms[code].endsAt
                /\ tm.id = rooms[code].players[seat].id
      ]_vars

\* C28: in every room, started implies winner = null and loser = null; a winner
\* is always named together with the other seat as loser, and a loser never
\* without a winner.
C28_WinnerLoserPaired ==
    \A code \in Codes :
        (variant = "arena" /\ rooms[code] # NoRoom)
        => LET r == rooms[code] IN
           /\ r.started => (r.winner = NULL /\ r.loser = NULL)
           /\ r.winner # NULL
                => (r.winner \in Seats /\ r.loser \in Seats /\ r.loser # r.winner)
           /\ r.loser # NULL => r.winner # NULL

\* C28 witness: a match started at the end time of an earlier one was ended by a
\* death: not started, A the winner, B the loser.
C28_Witness ==
    /\ variant = "arena" /\ rooms["R1"] # NoRoom
    /\ last.op = "action" /\ last.arg = "attack" /\ last.res = "ok"
    /\ ~rooms["R1"].started /\ rooms["R1"].winner = "A" /\ rooms["R1"].loser = "B"
    /\ now >= MATCH_DURATION_MS
    /\ rooms["R1"].endsAt = 2 * MATCH_DURATION_MS

\* The live intervals of a kind that belong to a room.
LiveOf(code, kind) == {iv \in intervals4 : iv.code = code /\ iv.kind = kind}

TimersPaired ==
    \A code \in Codes :
        /\ Cardinality(LiveOf(code, "tick")) <= 1
        /\ Cardinality(LiveOf(code, "event")) <= 1
        /\ (rooms4[code] = NoRoom \/ ~rooms4[code].started)
             => (LiveOf(code, "tick") = {} /\ LiveOf(code, "event") = {})

\* C29: in the 4x4 variant a room has at most one live tick interval and at most
\* one live minute-event interval, and none of either while started = false;
\* a minute event changes a room only while its match is started.
C29_OneTimerPair ==
    /\ []TimersPaired
    /\ [][ \A code \in Codes :
             (last'.op = "minuteEvent" /\ rooms4'[code] # rooms4[code])
             => rooms4[code].started ]_vars

\* C29 witness: an attack ended a started match: a player at hp 0, not started,
\* no interval left.
C29_Witness ==
    /\ variant = "grid4" /\ last.op = "action" /\ last.arg = "attack"
    /\ rooms4["R1"] # NoRoom /\ ~rooms4["R1"].started
    /\ rooms4["R1"].players["A"] # NoPlayer /\ rooms4["R1"].players["A"].hp = 0
    /\ intervals4 = {}

====
